---- MODULE Spec2Model ----
(***************************************************************************)
(* Session orchestration layer of hellogpt: the session state machine      *)
(* (state_machine.py), the audio distribution hub (audio/mic_stream.py),   *)
(* the playback buffer (audio/speaker_player.py) and the wake/exit         *)
(* confirmation engine (wake/wake_detector_vosk.py).                       *)
(*                                                                         *)
(* One set of variables holds the fields of all four objects.  Each        *)
(* component has its own specification (SpecSM, SpecMic, SpecSpk,          *)
(* SpecWake) that runs the threads touching that component and leaves the  *)
(* rest of the variables alone.                                            *)
(***************************************************************************)
EXTENDS Integers, Sequences, FiniteSets, TLC

VARIABLES
    \* HelloGptStateMachine
    pc,               \* position of the consumer thread: "new", "loop", "done"
    state,            \* self.state
    events,           \* self.events (FIFO of [type, sid])
    stop_flag,        \* self._stop
    realtime,         \* self._realtime: 0 is None, else the client's number
    mic_forward_sub,  \* self._mic_forward_sub: 0 is None, else the token
    call_stopping,    \* self._call_stopping
    wake_sub,         \* self._wake_sub
    websocket_ok,     \* whether the websocket module could be imported
    clients,          \* every RealtimeClient constructed so far
    posted,           \* number of events posted by the other threads
    trace,            \* ghost: the effects of the consumer thread, in order
    \* MicStream
    listeners,        \* self._listeners: token -> callback
    next_listener_id, \* self._next_listener_id
    \* WakeDetectorVosk
    mode,             \* self._mode
    wake_hits,        \* self._wake_hits
    exit_hits,        \* self._exit_hits
    \* SpeakerPlayer
    spk_q,            \* self._q (FIFO of chunks, a chunk is a sequence of bytes)
    spk_buf,          \* self._buf
    \* the capture thread inside MicStream._dispatch
    d_pc,             \* "idle" or "deliver"
    d_snap,           \* the local list of listeners, as their tokens
    d_i,              \* position of the for loop in d_snap
    d_chunk,          \* number of chunks dispatched so far
    returned,         \* ghost: tokens whose unsubscribe call has returned
    delivered,        \* ghost: the callback invocations, in order
    snap_log,         \* ghost: per chunk, the hub when its list was taken
    \* the threads that use SpeakerPlayer
    r_pc,             \* playback callback: "idle", or "pull" inside _read_bytes
    r_out,            \* the frame the playback callback wrote last
    r_info,           \* ghost: what the last read found
    c_pc,             \* clear(): "idle", or "drain" in its queue loop
    clears,           \* number of clear() calls so far
    next_byte,        \* ghost: bytes are numbered from 1 as they are enqueued
    played,           \* ghost: the bytes handed to the audio device, padding left out
    discarded,        \* ghost: the bytes dropped by enqueue or removed by clear
    after_clear,      \* ghost: a clear() has returned and nothing was enqueued since it began
    quiet,            \* ghost: nothing was enqueued since the last clear() began
    r_watch,          \* ghost: the read in progress began while after_clear held
    r_verdict,        \* ghost: the last read began and ended while after_clear held
    \* WakeDetectorVosk: the recognition thread and a thread inside set_mode
    last_trigger_ts,  \* self._last_trigger_ts
    clock,            \* time.time()
    h_pc,             \* position of the recognition thread in _handle_transcript
    h_loc,            \* its locals: text, norm, now, mode, and the value read for +=
    m_pc,             \* position of the thread inside set_mode
    mode_steps,       \* ghost: steps of set_mode taken so far
    emitted,          \* ghost: the events handed to event_sink, with their time
    tlog,             \* ghost: one entry per transcript handled
    \* one RealtimeClient and the threads that run in it
    rt_stop,          \* self._stop
    rt_connected,     \* self._connected
    rt_ws_app,        \* self._ws_app is not None
    rt_q,             \* self._audio_q (FIFO of chunks, a chunk is its number)
    conn,             \* the network connection: "none", "open", "closed"
    w_pc,             \* position of the receive thread (_run_ws)
    w_msg,            \* the message the receive thread is handling
    s_pc,             \* position of the send thread (_run_sender)
    s_chunk,          \* the chunk the send thread holds
    k_pc,             \* position of the thread inside close()
    k_ws,             \* close() has called self._ws_app.close()
    rt_calls,         \* number of send_audio calls so far
    rt_recv,          \* number of messages received so far
    wire,             \* ghost: the messages transmitted on the connection, in order
    rt_events,        \* ghost: the events handed to event_sink
    rt_dropped,       \* ghost: chunks the send loop discarded at its test of _connected
    created,          \* ghost: session.created has been received on the connection
    last_put,         \* ghost: the last put_nowait on each bounded queue
    last_handled,     \* ghost: the last message handled to its end
    \* WakeDetectorVosk: its life cycle and its audio queue
    wd_enabled,       \* self._enabled
    wd_thread,        \* self._thread is not None
    wd_stop,          \* self._stop
    wd_q,             \* self._audio_q (FIFO of chunks, a chunk is its number)
    vosk,             \* the engine: "missing", "no_model", "broken" or "ok"
    st_pc,            \* position of the thread inside start()
    x_pc,             \* position of the thread inside stop()
    v_pc,             \* position of the recognition thread (_run)
    p_pc,             \* position of the capture thread inside push_audio
    p_loc,            \* its locals
    wd_pushes,        \* number of push_audio calls so far
    wd_last_push      \* ghost: the last push_audio call that returned

smVars   == <<pc, state, events, stop_flag, realtime, mic_forward_sub, call_stopping,
              wake_sub, websocket_ok, clients, posted, trace>>
hubVars  == <<listeners, next_listener_id>>
wakeData == <<mode, wake_hits, exit_hits>>
spkData  == <<spk_q, spk_buf>>

micThread == <<d_pc, d_snap, d_i, d_chunk, returned, delivered, snap_log>>
spkThread == <<r_pc, r_out, r_info, c_pc, clears, next_byte, played, discarded,
               after_clear, quiet, r_watch, r_verdict>>
wakeThread == <<last_trigger_ts, clock, h_pc, h_loc, m_pc, mode_steps, emitted, tlog>>
rtThread == <<rt_stop, rt_connected, rt_ws_app, rt_q, conn, w_pc, w_msg, s_pc, s_chunk,
              k_pc, k_ws, rt_calls, rt_recv, wire, rt_events, rt_dropped, created,
              last_put, last_handled>>
vkThread == <<wd_enabled, wd_thread, wd_stop, wd_q, vosk, st_pc, x_pc, v_pc, p_pc, p_loc,
              wd_pushes, wd_last_push>>
threadVars == <<micThread, spkThread, wakeThread, rtThread, vkThread>>

vars == <<smVars, hubVars, wakeData, spkData, threadVars>>

(***************************************************************************)
(* Bounds of the model.                                                    *)
(***************************************************************************)
MaxEvents == 4      \* events posted to the state machine by the other threads
SmSpkMax  == 1      \* chunks a live client enqueues for playback in SpecSM

(***************************************************************************)
(* Helpers.                                                                *)
(***************************************************************************)
E(k, s, n) == [k |-> k, s |-> s, n |-> n]

IsConsume(e) == e.k = "consume"

\* an event in self.events; seq is a ghost field, the number of the event in
\* the order of the put calls on the queue
Ev(t, sid, seq) == [type |-> t, sid |-> sid, seq |-> seq]

\* the number of the next event put on queue q, tr being the trace so far
NextSeq(tr, q) == Cardinality({i \in DOMAIN tr : IsConsume(tr[i])}) + Len(q) + 1

RECURSIVE Flatten(_)
Flatten(q) == IF q = <<>> THEN <<>> ELSE Head(q) \o Flatten(Tail(q))

IsPrefix(a, b) == Len(a) <= Len(b) /\ SubSeq(b, 1, Len(a)) = a

Count(seq, P(_)) == Cardinality({i \in DOMAIN seq : P(seq[i])})

(***************************************************************************)
(* MicStream.subscribe / unsubscribe: the dictionary update each performs  *)
(* under self._lock.                                                       *)
(***************************************************************************)
DictPut(d, tok, cb) == [t \in (DOMAIN d) \cup {tok} |-> IF t = tok THEN cb ELSE d[t]]

\* mutant: unsubscribe leaves the dictionary as it is
DictPop_KeepsEntry(d, tok) == d

DictPop(d, tok) == [t \in (DOMAIN d) \ {tok} |-> d[t]]

(***************************************************************************)
(* The state machine.  Its handlers run on the consumer thread only; each  *)
(* is a function from the record of the fields it can touch to the record  *)
(* after the handler.                                                      *)
(***************************************************************************)
AppStates == {"IDLE_LISTENING", "CONNECTING", "IN_CALL", "STOPPING", "SHUTDOWN"}

Printed == {"IDLE_LISTENING", "CONNECTING", "IN_CALL", "STOPPING"}

Cur == [state |-> state, events |-> events, stop_flag |-> stop_flag,
        realtime |-> realtime, mic_forward_sub |-> mic_forward_sub,
        call_stopping |-> call_stopping, clients |-> clients, trace |-> trace,
        listeners |-> listeners, next_listener_id |-> next_listener_id,
        mode |-> mode, wake_hits |-> wake_hits, exit_hits |-> exit_hits,
        spk_q |-> spk_q, spk_buf |-> spk_buf]

Becomes(s) ==
    /\ state' = s.state
    /\ events' = s.events
    /\ stop_flag' = s.stop_flag
    /\ realtime' = s.realtime
    /\ mic_forward_sub' = s.mic_forward_sub
    /\ call_stopping' = s.call_stopping
    /\ clients' = s.clients
    /\ trace' = s.trace
    /\ listeners' = s.listeners
    /\ next_listener_id' = s.next_listener_id
    /\ mode' = s.mode
    /\ wake_hits' = s.wake_hits
    /\ exit_hits' = s.exit_hits
    /\ spk_q' = s.spk_q
    /\ spk_buf' = s.spk_buf

Log(s, e) == [s EXCEPT !.trace = Append(@, e)]

\* _set_state: the n field records whether STATE=<name> is printed
SetState(s, new, print_state) ==
    Log([s EXCEPT !.state = new], E("state", new, IF print_state /\ new \in Printed THEN 1 ELSE 0))

\* mutant: set_mode resets the counters and leaves the mode alone
SetMode_CountersOnly(s, m) ==
    Log([s EXCEPT !.wake_hits = 0, !.exit_hits = 0], E("mode", m, 0))

\* WakeDetectorVosk.set_mode
SetMode(s, m) ==
    Log([s EXCEPT !.mode = m, !.wake_hits = 0, !.exit_hits = 0], E("mode", m, 0))

\* MicStream.subscribe; the token handed out is s.next_listener_id
Subscribe(s, cb) ==
    Log([s EXCEPT !.listeners = DictPut(@, s.next_listener_id, cb),
                  !.next_listener_id = @ + 1], E("sub", cb, s.next_listener_id))

\* MicStream.unsubscribe
Unsubscribe(s, tok) ==
    Log([s EXCEPT !.listeners = DictPop(@, tok)], E("unsub", "", tok))

\* SpeakerPlayer.clear, run to its end without a concurrent reader
SpeakerClear(s) ==
    Log([s EXCEPT !.spk_buf = <<>>, !.spk_q = <<>>], E("clear", "", 0))

\* RealtimeClient.close
ClientClose(s, sid) ==
    Log([s EXCEPT !.clients[sid].stop = TRUE, !.clients[sid].closes = @ + 1],
        E("close", "", sid))

\* mutant: the event is put at the head of the queue
PostEvent_AtFront(s, t, sid) ==
    [s EXCEPT !.events = <<Ev(t, sid, NextSeq(s.trace, s.events))>> \o @]

\* post_event
PostEvent(s, t, sid) ==
    [s EXCEPT !.events = Append(@, Ev(t, sid, NextSeq(s.trace, s.events)))]

\* mutant: the single in-flight guard is missing
StopCallSkips_NoInFlightGuard(cs, st, reason) ==
    st \notin {"CONNECTING", "IN_CALL", "STOPPING"} /\ reason # "shutdown"

\* mutant: a shutdown does not get past the state guard
StopCallSkips_NoShutdownBypass(cs, st, reason) ==
    \/ cs
    \/ st \notin {"CONNECTING", "IN_CALL", "STOPPING"}

\* mutant: a call that is still connecting is not torn down
StopCallSkips_WhileConnecting(cs, st, reason) ==
    \/ cs
    \/ st \notin {"IN_CALL", "STOPPING"} /\ reason # "shutdown"

\* the two guards at the top of _stop_call
StopCallSkips(cs, st, reason) ==
    \/ cs
    \/ st \notin {"CONNECTING", "IN_CALL", "STOPPING"} /\ reason # "shutdown"

\* mutant: the teardown does not record that it ran
MarkStopping_Forgotten(s) == s

\* self._call_stopping = True
MarkStopping(s) == [s EXCEPT !.call_stopping = TRUE]

StopCall(s, reason) ==
    LET s0 == Log(s, E("stop_call", reason, 0)) IN
    IF StopCallSkips(s0.call_stopping, s0.state, reason) THEN s0
    ELSE
      LET s1 == Log(MarkStopping(s0), E("cleanup", reason, 0))
          s2 == IF reason # "shutdown" THEN SetState(s1, "STOPPING", TRUE) ELSE s1
          s3 == SetMode(s2, "idle")
          s4 == IF s3.mic_forward_sub # 0
                THEN [Unsubscribe(s3, s3.mic_forward_sub) EXCEPT !.mic_forward_sub = 0]
                ELSE s3
          s5 == IF s4.realtime # 0
                THEN [ClientClose(s4, s4.realtime) EXCEPT !.realtime = 0]
                ELSE s4
          s6 == SpeakerClear(s5)
      IN IF ~s6.stop_flag /\ reason # "shutdown"
         THEN SetState(s6, "IDLE_LISTENING", TRUE)
         ELSE s6

NewClient == [started |-> FALSE, stop |-> FALSE, closes |-> 0]

StartCall(s, ws_ok) ==
    LET s1  == [s EXCEPT !.call_stopping = FALSE]
        s2  == SetState(s1, "CONNECTING", TRUE)
        sid == Len(s2.clients) + 1
        s3  == Log([s2 EXCEPT !.clients = Append(@, NewClient), !.realtime = sid],
                   E("new", "", sid))
    IN IF ws_ok
       THEN LET s4 == Log([s3 EXCEPT !.clients[sid].started = TRUE], E("start", "ok", sid))
                s5 == Subscribe(s4, "send_audio")
            IN [s5 EXCEPT !.mic_forward_sub = s4.next_listener_id]
       ELSE PostEvent(Log(s3, E("start", "raise", sid)), "realtime.error", 0)

\* mutant: realtime.ready is accepted in IDLE_LISTENING instead of CONNECTING
HandleBranch_ReadyWrongState(t, st) ==
    IF t = "wake.detected" /\ st = "IDLE_LISTENING" THEN "start_call"
    ELSE IF t = "realtime.ready" /\ st = "IDLE_LISTENING" THEN "ready"
    ELSE IF t = "exit.detected" /\ st = "IN_CALL" THEN "stop_call"
    ELSE IF t \in {"realtime.closed", "realtime.error"} /\ st \in {"CONNECTING", "IN_CALL"}
         THEN "stop_call"
    ELSE IF t = "app.stop" THEN "stop"
    ELSE "ignore"

\* mutant: realtime.closed and realtime.error end a call only in IN_CALL
HandleBranch_ErrorOnlyInCall(t, st) ==
    IF t = "wake.detected" /\ st = "IDLE_LISTENING" THEN "start_call"
    ELSE IF t = "realtime.ready" /\ st = "CONNECTING" THEN "ready"
    ELSE IF t = "exit.detected" /\ st = "IN_CALL" THEN "stop_call"
    ELSE IF t \in {"realtime.closed", "realtime.error"} /\ st \in {"IN_CALL"}
         THEN "stop_call"
    ELSE IF t = "app.stop" THEN "stop"
    ELSE "ignore"

\* mutant: wake.detected starts a call in every state
HandleBranch_WakeAnywhere(t, st) ==
    IF t = "wake.detected" THEN "start_call"
    ELSE IF t = "realtime.ready" /\ st = "CONNECTING" THEN "ready"
    ELSE IF t = "exit.detected" /\ st = "IN_CALL" THEN "stop_call"
    ELSE IF t \in {"realtime.closed", "realtime.error"} /\ st \in {"CONNECTING", "IN_CALL"}
         THEN "stop_call"
    ELSE IF t = "app.stop" THEN "stop"
    ELSE "ignore"

\* mutant: exit.detected ends a call that is still connecting
HandleBranch_ExitWhileConnecting(t, st) ==
    IF t = "wake.detected" /\ st = "IDLE_LISTENING" THEN "start_call"
    ELSE IF t = "realtime.ready" /\ st = "CONNECTING" THEN "ready"
    ELSE IF t = "exit.detected" /\ st \in {"CONNECTING", "IN_CALL"} THEN "stop_call"
    ELSE IF t \in {"realtime.closed", "realtime.error"} /\ st \in {"CONNECTING", "IN_CALL"}
         THEN "stop_call"
    ELSE IF t = "app.stop" THEN "stop"
    ELSE "ignore"

\* the branch of _handle_event taken for an event of type t in state st
HandleBranch(t, st) ==
    IF t = "wake.detected" /\ st = "IDLE_LISTENING" THEN "start_call"
    ELSE IF t = "realtime.ready" /\ st = "CONNECTING" THEN "ready"
    ELSE IF t = "exit.detected" /\ st = "IN_CALL" THEN "stop_call"
    ELSE IF t \in {"realtime.closed", "realtime.error"} /\ st \in {"CONNECTING", "IN_CALL"}
         THEN "stop_call"
    ELSE IF t = "app.stop" THEN "stop"
    ELSE "ignore"

StopReason(t) == IF t = "exit.detected" THEN "exit phrase" ELSE t

HandleEvent(s, ev) ==
    LET b  == HandleBranch(ev.type, s.state)
        s0 == Log(s, [k |-> "consume", s |-> ev.type, n |-> ev.sid, seq |-> ev.seq])
    IN CASE b = "start_call" -> StartCall(s0, websocket_ok)
         [] b = "ready"      -> SetState(SetMode([s0 EXCEPT !.call_stopping = FALSE], "in_call"),
                                         "IN_CALL", TRUE)
         [] b = "stop_call"  -> StopCall(s0, StopReason(ev.type))
         [] b = "stop"       -> [s0 EXCEPT !.stop_flag = TRUE]
         [] OTHER            -> s0

\* shutdown()
ShutdownAll(s, wsub) ==
    LET s1 == IF s.state # "SHUTDOWN" THEN SetState(s, "SHUTDOWN", FALSE) ELSE s
        s2 == StopCall(s1, "shutdown")
        s3 == Unsubscribe(s2, wsub)
    IN SpeakerClear(s3)

\* the capture thread has not dispatched anything
InitMicThread ==
    /\ d_pc = "idle"
    /\ d_snap = <<>>
    /\ d_i = 0
    /\ d_chunk = 0
    /\ returned = {}
    /\ delivered = <<>>
    /\ snap_log = <<>>

\* no playback callback and no clear() in progress
InitSpkThread ==
    /\ r_pc = "idle"
    /\ r_out = <<>>
    /\ r_info = [avail |-> 0, qempty |-> TRUE, reads |-> 0]
    /\ c_pc = "idle"
    /\ clears = 0
    /\ next_byte = 1
    /\ played = <<>>
    /\ discarded = {}
    /\ after_clear = FALSE
    /\ quiet = FALSE
    /\ r_watch = FALSE
    /\ r_verdict = FALSE

StartTime == 2      \* time.time() when the process starts, not below the cooldown

NoLocals == [text |-> <<>>, norm |-> <<>>, now |-> 0, mode |-> "idle", tmp |-> 0,
             last |-> 0, wh0 |-> 0, eh0 |-> 0, ms0 |-> 0]

\* the recognition thread waits for audio, nobody is inside set_mode
InitWakeThread ==
    /\ last_trigger_ts = 0
    /\ clock = StartTime
    /\ h_pc = "idle"
    /\ h_loc = NoLocals
    /\ m_pc = "idle"
    /\ mode_steps = 0
    /\ emitted = <<>>
    /\ tlog = <<>>

NoPut == [made |-> FALSE, full |-> FALSE, chunk |-> <<>>, before |-> <<>>, after |-> <<>>]

NoMessage == [type |-> "", wire0 |-> 0, ev0 |-> 0]

\* RealtimeClient.__init__: no thread started, nothing queued
InitRtThread ==
    /\ rt_stop = FALSE
    /\ rt_connected = FALSE
    /\ rt_ws_app = FALSE
    /\ rt_q = <<>>
    /\ conn = "none"
    /\ w_pc = "unstarted"
    /\ w_msg = NoMessage
    /\ s_pc = "unstarted"
    /\ s_chunk = [id |-> 0, deq_neg |-> FALSE]
    /\ k_pc = "idle"
    /\ k_ws = FALSE
    /\ rt_calls = 0
    /\ rt_recv = 0
    /\ wire = <<>>
    /\ rt_events = <<>>
    /\ rt_dropped = {}
    /\ created = FALSE
    /\ last_put = [spk |-> NoPut, rt |-> NoPut]
    /\ last_handled = [type |-> "", sent |-> <<>>, emitted |-> 0, clean |-> FALSE]

NoPush == [made |-> FALSE, enabled |-> FALSE, settled |-> FALSE, chunk |-> 0,
           before |-> <<>>, after |-> <<>>, raised |-> FALSE,
           full |-> FALSE, atdrop |-> <<>>, dropped |-> 0]

\* WakeDetectorVosk.__init__: not started, nothing queued
InitDetector ==
    /\ wd_enabled = FALSE
    /\ wd_thread = FALSE
    /\ wd_stop = FALSE
    /\ wd_q = <<>>
    /\ st_pc = "idle"
    /\ x_pc = "idle"
    /\ v_pc = "none"
    /\ p_pc = "idle"
    /\ p_loc = NoPush
    /\ wd_pushes = 0
    /\ wd_last_push = NoPush

\* the engine is installed and its model is there
InitVkThread == InitDetector /\ vosk = "ok"

InitThreads ==
    InitMicThread /\ InitSpkThread /\ InitWakeThread /\ InitRtThread /\ InitVkThread

\* HelloGptStateMachine.__init__
InitSM ==
    /\ InitThreads
    /\ pc = "new"
    /\ state = "IDLE_LISTENING"
    /\ events = <<>>
    /\ stop_flag = FALSE
    /\ realtime = 0
    /\ mic_forward_sub = 0
    /\ call_stopping = FALSE
    /\ wake_sub = 1
    /\ websocket_ok \in BOOLEAN
    /\ clients = <<>>
    /\ posted = 0
    /\ trace = <<>>
    /\ listeners = (1 :> "push_audio")
    /\ next_listener_id = 2
    /\ mode = "idle"
    /\ wake_hits = 0
    /\ exit_hits = 0
    /\ spk_q = <<>>
    /\ spk_buf = <<>>

\* _startup
Startup ==
    /\ pc = "new"
    /\ pc' = "loop"
    /\ Becomes(SetState(SetMode(Cur, "idle"), "IDLE_LISTENING", TRUE))
    /\ UNCHANGED <<wake_sub, websocket_ok, posted, threadVars>>

\* one iteration of the loop of run(): events.get, then _handle_event
Consume(b) ==
    /\ pc = "loop"
    /\ ~stop_flag
    /\ events # <<>>
    /\ HandleBranch(Head(events).type, state) = b
    /\ Becomes(HandleEvent([Cur EXCEPT !.events = Tail(events)], Head(events)))
    /\ UNCHANGED <<pc, wake_sub, websocket_ok, posted, threadVars>>

ConsumeWake    == Consume("start_call")
ConsumeReady   == Consume("ready")
ConsumeEnd     == Consume("stop_call")
ConsumeAppStop == Consume("stop")
ConsumeIgnored == Consume("ignore")

\* the loop of run() sees the stop flag; the finally clause runs shutdown()
LoopExit ==
    /\ pc = "loop"
    /\ stop_flag
    /\ pc' = "done"
    /\ Becomes(ShutdownAll(Cur, wake_sub))
    /\ UNCHANGED <<wake_sub, websocket_ok, posted, threadVars>>

\* KeyboardInterrupt while run() waits for an event: the finally clause runs
\* shutdown(), then main() calls stop()
Interrupt ==
    /\ pc = "loop"
    /\ ~stop_flag
    /\ pc' = "done"
    /\ Becomes([ShutdownAll(Cur, wake_sub) EXCEPT !.stop_flag = TRUE])
    /\ UNCHANGED <<wake_sub, websocket_ok, posted, threadVars>>

\* the recognition thread posts wake.detected or exit.detected
PostDetector ==
    /\ pc = "loop"
    /\ posted < MaxEvents
    /\ \E t \in {"wake.detected", "exit.detected"} :
         events' = Append(events, Ev(t, 0, NextSeq(trace, events)))
    /\ posted' = posted + 1
    /\ UNCHANGED <<pc, state, stop_flag, realtime, mic_forward_sub, call_stopping,
                   wake_sub, websocket_ok, clients, trace, hubVars, wakeData, spkData, threadVars>>

\* a thread of a started RealtimeClient posts one of its events (_emit)
PostRealtime ==
    /\ pc = "loop"
    /\ posted < MaxEvents
    /\ \E sid \in DOMAIN clients :
         /\ clients[sid].started
         /\ \E t \in {"realtime.ready", "realtime.closed", "realtime.error",
                      "realtime.response_event"} :
              events' = Append(events, Ev(t, sid, NextSeq(trace, events)))
    /\ posted' = posted + 1
    /\ UNCHANGED <<pc, state, stop_flag, realtime, mic_forward_sub, call_stopping,
                   wake_sub, websocket_ok, clients, trace, hubVars, wakeData, spkData, threadVars>>

\* somebody posts app.stop
PostAppStop ==
    /\ pc = "loop"
    /\ posted < MaxEvents
    /\ events' = Append(events, Ev("app.stop", 0, NextSeq(trace, events)))
    /\ posted' = posted + 1
    /\ UNCHANGED <<pc, state, stop_flag, realtime, mic_forward_sub, call_stopping,
                   wake_sub, websocket_ok, clients, trace, hubVars, wakeData, spkData, threadVars>>

\* the receive loop of a started client queues an audio delta for playback
\* (SpeakerPlayer.enqueue)
RtAudioDelta ==
    /\ pc = "loop"
    /\ \E sid \in DOMAIN clients : clients[sid].started
    /\ Len(spk_q) < SmSpkMax
    /\ spk_q' = Append(spk_q, <<1>>)
    /\ UNCHANGED <<smVars, hubVars, wakeData, spk_buf, threadVars>>

NextSM ==
    \/ Startup
    \/ ConsumeWake
    \/ ConsumeReady
    \/ ConsumeEnd
    \/ ConsumeAppStop
    \/ ConsumeIgnored
    \/ LoopExit
    \/ Interrupt
    \/ PostDetector
    \/ PostRealtime
    \/ PostAppStop
    \/ RtAudioDelta

SpecSM == InitSM /\ [][NextSM]_vars

(***************************************************************************)
(* The audio distribution hub on its own: MicStream with threads that      *)
(* subscribe and unsubscribe while the capture thread dispatches chunks.   *)
(* subscribe, unsubscribe and the copy of the listeners in _dispatch each  *)
(* run under self._lock, so each is one step; the callbacks are invoked    *)
(* after the lock is released, one step per callback.                      *)
(***************************************************************************)
MaxTokens == 3      \* subscribe calls
MaxChunks == 2      \* chunks the capture callback dispatches

Callbacks == {"ok", "raises"}

RECURSIVE Ascending(_)
Ascending(S) ==
    IF S = {} THEN <<>>
    ELSE LET m == CHOOSE x \in S : \A y \in S : x <= y
         IN <<m>> \o Ascending(S \ {m})

\* list(self._listeners.values()): a dict keeps insertion order, and tokens
\* are inserted in increasing order
Snapshot(d) == Ascending(DOMAIN d)

\* MicStream.__init__, and the state machine not started
InitMic ==
    /\ InitThreads
    /\ listeners = <<>>
    /\ next_listener_id = 1
    /\ pc = "new"
    /\ state = "IDLE_LISTENING"
    /\ events = <<>>
    /\ stop_flag = FALSE
    /\ realtime = 0
    /\ mic_forward_sub = 0
    /\ call_stopping = FALSE
    /\ wake_sub = 0
    /\ websocket_ok = TRUE
    /\ clients = <<>>
    /\ posted = 0
    /\ trace = <<>>
    /\ mode = "idle"
    /\ wake_hits = 0
    /\ exit_hits = 0
    /\ spk_q = <<>>
    /\ spk_buf = <<>>

\* MicStream.subscribe, called from any thread
MicSubscribe ==
    /\ next_listener_id <= MaxTokens
    /\ \E cb \in Callbacks : listeners' = DictPut(listeners, next_listener_id, cb)
    /\ next_listener_id' = next_listener_id + 1
    /\ UNCHANGED <<smVars, vkThread, rtThread, wakeData, spkData, micThread, spkThread, wakeThread>>

\* MicStream.unsubscribe of a token handed out earlier, called from any
\* thread; the call has returned when the step is over
MicUnsubscribe ==
    /\ \E tok \in 1..(next_listener_id - 1) :
         /\ listeners' = DictPop(listeners, tok)
         /\ returned' = returned \cup {tok}
    /\ UNCHANGED <<smVars, vkThread, rtThread, wakeData, spkData, spkThread, wakeThread, next_listener_id,
                   d_pc, d_snap, d_i, d_chunk, delivered, snap_log>>

\* _dispatch: with self._lock: listeners = list(self._listeners.values())
DispatchBegin ==
    /\ d_pc = "idle"
    /\ d_chunk < MaxChunks
    /\ d_chunk' = d_chunk + 1
    /\ d_snap' = Snapshot(listeners)
    /\ d_i' = 1
    /\ d_pc' = "deliver"
    /\ snap_log' = Append(snap_log, [subs |-> DOMAIN listeners, cbs |-> listeners,
                                      ret |-> returned])
    /\ UNCHANGED <<smVars, vkThread, rtThread, hubVars, wakeData, spkData, spkThread, wakeThread, returned, delivered>>

\* mutant: the call of the listener is not wrapped in try/except
CallbackCaught_Nothing(cb) == cb # "raises"

\* try: cb(data) / except Exception: whether the loop goes on after the call
CallbackCaught(cb) == TRUE

\* _dispatch: one iteration of the for loop; an exception of the callback is
\* caught and logged, an exception that is not caught ends _dispatch
DispatchDeliver ==
    /\ d_pc = "deliver"
    /\ d_i <= Len(d_snap)
    /\ LET cb == snap_log[d_chunk].cbs[d_snap[d_i]] IN
         /\ delivered' = Append(delivered,
                                [chunk |-> d_chunk, tok |-> d_snap[d_i],
                                 raised |-> cb = "raises",
                                 caught |-> CallbackCaught(cb),
                                 late |-> d_snap[d_i] \in returned])
         /\ IF CallbackCaught(cb)
            THEN d_i' = d_i + 1 /\ UNCHANGED d_pc
            ELSE d_pc' = "idle" /\ UNCHANGED d_i
    /\ UNCHANGED <<smVars, vkThread, rtThread, hubVars, wakeData, spkData, spkThread, wakeThread, d_snap,
                   d_chunk, returned, snap_log>>

\* _dispatch: the for loop is over, _dispatch returns to the capture callback
DispatchEnd ==
    /\ d_pc = "deliver"
    /\ d_i > Len(d_snap)
    /\ d_pc' = "idle"
    /\ UNCHANGED <<smVars, vkThread, rtThread, hubVars, wakeData, spkData, spkThread, wakeThread, d_snap, d_i, d_chunk,
                   returned, delivered, snap_log>>

NextMic ==
    \/ MicSubscribe
    \/ MicUnsubscribe
    \/ DispatchBegin
    \/ DispatchDeliver
    \/ DispatchEnd

SpecMic == InitMic /\ [][NextMic]_vars

\* the tokens chunk c was delivered to, in order
DeliveredTo(c) ==
    LET ds == SelectSeq(delivered, LAMBDA e : e.chunk = c)
    IN [i \in DOMAIN ds |-> ds[i].tok]

DispatchOver(c) == c < d_chunk \/ (c = d_chunk /\ d_pc = "idle")

(***************************************************************************)
(* C5 as stated: no chunk is delivered to a listener after the unsubscribe *)
(* call for its token has returned, and every listener subscribed when a   *)
(* dispatch takes place receives the chunk.                                *)
(***************************************************************************)
C5_NoDeliveryAfterUnsubscribe ==
    /\ \A i \in DOMAIN delivered : ~delivered[i].late
    /\ \A c \in DOMAIN snap_log :
         DispatchOver(c) => \A t \in snap_log[c].subs : \E i \in DOMAIN delivered :
                               delivered[i].chunk = c /\ delivered[i].tok = t

(***************************************************************************)
(* C5 amended: a chunk is delivered exactly to the listeners subscribed    *)
(* when _dispatch copied the listeners, once each and in subscription      *)
(* order; so it is never delivered to a token whose unsubscribe call       *)
(* returned before the copy was taken, while an unsubscribe that returns   *)
(* after the copy does not stop the delivery in flight.                    *)
(***************************************************************************)
C5_DeliveryFollowsSnapshot ==
    /\ \A i \in DOMAIN delivered :
         /\ delivered[i].tok \in snap_log[delivered[i].chunk].subs
         /\ delivered[i].tok \notin snap_log[delivered[i].chunk].ret
    /\ \A c \in DOMAIN snap_log :
         /\ IsPrefix(DeliveredTo(c), Ascending(snap_log[c].subs))
         /\ DispatchOver(c) => DeliveredTo(c) = Ascending(snap_log[c].subs)
    /\ \A t \in returned : t \notin DOMAIN listeners

C5_Witness ==
    /\ d_chunk = 2
    /\ d_pc = "idle"
    /\ \E i \in DOMAIN delivered : delivered[i].late
    /\ \E i \in DOMAIN delivered :
         delivered[i].chunk = 2 /\ snap_log[2].ret # {} /\ Len(DeliveredTo(2)) = 2

(***************************************************************************)
(* C11: when a listener callback raises during _dispatch, the exception is *)
(* caught: the loop goes on with the next listener of the copy, so that    *)
(* every listener of the copy receives that chunk once the dispatch is     *)
(* over, and the dispatch ends by returning to the capture callback.       *)
(***************************************************************************)
RaisedIn(c) == \E i \in DOMAIN delivered : delivered[i].chunk = c /\ delivered[i].raised

C11_RaiseIsContained ==
    /\ \A i \in DOMAIN delivered : delivered[i].raised => delivered[i].caught
    /\ \A c \in DOMAIN snap_log :
         RaisedIn(c) =>
            IF DispatchOver(c)
            THEN DeliveredTo(c) = Ascending(snap_log[c].subs)
            ELSE /\ d_pc = "deliver"
                 /\ d_chunk = c
                 /\ d_i = Len(DeliveredTo(c)) + 1

C11_Witness ==
    /\ d_pc = "idle"
    /\ d_chunk = 1
    /\ Len(delivered) = 3
    /\ delivered[1].raised
    /\ ~delivered[2].raised
    /\ delivered[3].raised

(***************************************************************************)
(* The playback buffer on its own: SpeakerPlayer with a producer calling   *)
(* enqueue, the playback callback reading frames, and a thread calling     *)
(* clear.  _read_bytes holds self._buf_lock from its first to its last     *)
(* step; clear holds it only while it empties self._buf and then drains    *)
(* the queue without it.  Every queue operation is one step.               *)
(***************************************************************************)
FrameBytes  == 2    \* frames * channels * 2 of one playback callback
MaxChunkLen == 2    \* length of an enqueued chunk
MaxBytes    == 5    \* bytes enqueued in all
SpkQueueMax == 2    \* capacity of SpeakerPlayer._q, 512 in the source
MaxClears   == 2    \* clear() calls

Min(a, b) == IF a <= b THEN a ELSE b

Zeros(n) == [i \in 1..n |-> 0]

\* data = bytes(self._buf[:n])
ReadData(buf, n) == SubSeq(buf, 1, Min(n, Len(buf)))

\* del self._buf[:n]
ReadRest(buf, n) == SubSeq(buf, Min(n, Len(buf)) + 1, Len(buf))

\* mutant: the frame is handed over without the padding
Pad_Missing(chunk, n) == chunk

\* _callback: chunk += b"\x00" * (needed_bytes - len(chunk))
Pad(chunk, n) == IF Len(chunk) < n THEN chunk \o Zeros(n - Len(chunk)) ELSE chunk

Range(f) == {f[i] : i \in DOMAIN f}

\* SpeakerPlayer.__init__, and the state machine not started
InitSpk ==
    /\ InitThreads
    /\ spk_q = <<>>
    /\ spk_buf = <<>>
    /\ listeners = <<>>
    /\ next_listener_id = 1
    /\ pc = "new"
    /\ state = "IDLE_LISTENING"
    /\ events = <<>>
    /\ stop_flag = FALSE
    /\ realtime = 0
    /\ mic_forward_sub = 0
    /\ call_stopping = FALSE
    /\ wake_sub = 0
    /\ websocket_ok = TRUE
    /\ clients = <<>>
    /\ posted = 0
    /\ trace = <<>>
    /\ mode = "idle"
    /\ wake_hits = 0
    /\ exit_hits = 0

\* SpeakerPlayer.enqueue of a chunk of len bytes
SpkEnqueue ==
    \E len \in 0..MaxChunkLen :
        LET chunk == [i \in 1..len |-> next_byte + i - 1] IN
        /\ next_byte + len - 1 <= MaxBytes
        /\ next_byte' = next_byte + len
        /\ IF len = 0
           THEN UNCHANGED <<spk_q, discarded, after_clear, quiet>>
           ELSE /\ after_clear' = FALSE
                /\ quiet' = FALSE
                /\ IF Len(spk_q) < SpkQueueMax
                   THEN spk_q' = Append(spk_q, chunk) /\ UNCHANGED discarded
                   ELSE discarded' = discarded \cup Range(chunk) /\ UNCHANGED spk_q
        /\ UNCHANGED <<smVars, vkThread, rtThread, hubVars, wakeData, micThread, wakeThread, spk_buf,
                       r_pc, r_out, r_info, c_pc, clears, played, r_watch, r_verdict>>

\* _callback enters _read_bytes and takes self._buf_lock
ReadBegin ==
    /\ r_pc = "idle"
    /\ r_pc' = "pull"
    /\ r_watch' = after_clear
    /\ UNCHANGED <<smVars, vkThread, rtThread, hubVars, wakeData, micThread, wakeThread, spkData,
                   r_out, r_info, c_pc, clears, next_byte, played, discarded,
                   after_clear, quiet, r_verdict>>

\* _read_bytes: self._buf.extend(self._q.get_nowait())
ReadPull ==
    /\ r_pc = "pull"
    /\ Len(spk_buf) < FrameBytes
    /\ spk_q # <<>>
    /\ spk_buf' = spk_buf \o Head(spk_q)
    /\ spk_q' = Tail(spk_q)
    /\ UNCHANGED <<smVars, vkThread, rtThread, hubVars, wakeData, micThread, wakeThread, spkThread>>

\* _read_bytes: the loop ends (enough bytes, or queue.Empty), the frame is cut
\* off self._buf and the lock released; _callback pads the frame
ReadEnd ==
    /\ r_pc = "pull"
    /\ Len(spk_buf) >= FrameBytes \/ spk_q = <<>>
    /\ r_out' = Pad(ReadData(spk_buf, FrameBytes), FrameBytes)
    /\ spk_buf' = ReadRest(spk_buf, FrameBytes)
    /\ played' = played \o ReadData(spk_buf, FrameBytes)
    /\ r_info' = [avail |-> Len(spk_buf), qempty |-> spk_q = <<>>, reads |-> 1]
    /\ r_verdict' = (r_watch /\ after_clear)
    /\ r_watch' = FALSE
    /\ r_pc' = "idle"
    /\ UNCHANGED <<smVars, vkThread, rtThread, hubVars, wakeData, micThread, wakeThread, spk_q,
                   c_pc, clears, next_byte, discarded, after_clear, quiet>>

\* clear(): with self._buf_lock: self._buf.clear()
ClearBuf ==
    /\ c_pc = "idle"
    /\ clears < MaxClears
    /\ r_pc # "pull"
    /\ spk_buf' = <<>>
    /\ discarded' = discarded \cup Range(spk_buf)
    /\ clears' = clears + 1
    /\ quiet' = TRUE
    /\ after_clear' = FALSE
    /\ c_pc' = "drain"
    /\ UNCHANGED <<smVars, vkThread, rtThread, hubVars, wakeData, micThread, wakeThread, spk_q,
                   r_pc, r_out, r_info, next_byte, played, r_watch, r_verdict>>

\* clear(): self._q.get_nowait() returns a chunk
ClearDrain ==
    /\ c_pc = "drain"
    /\ spk_q # <<>>
    /\ spk_q' = Tail(spk_q)
    /\ discarded' = discarded \cup Range(Head(spk_q))
    /\ UNCHANGED <<smVars, vkThread, rtThread, hubVars, wakeData, micThread, wakeThread, spk_buf,
                   r_pc, r_out, r_info, c_pc, clears, next_byte, played,
                   after_clear, quiet, r_watch, r_verdict>>

\* clear(): self._q.get_nowait() raises queue.Empty, clear() returns
ClearEnd ==
    /\ c_pc = "drain"
    /\ spk_q = <<>>
    /\ c_pc' = "idle"
    /\ after_clear' = quiet
    /\ UNCHANGED <<smVars, vkThread, rtThread, hubVars, wakeData, micThread, wakeThread, spkData,
                   r_pc, r_out, r_info, clears, next_byte, played, discarded,
                   quiet, r_watch, r_verdict>>

NextSpk ==
    \/ SpkEnqueue
    \/ ReadBegin
    \/ ReadPull
    \/ ReadEnd
    \/ ClearBuf
    \/ ClearDrain
    \/ ClearEnd

SpecSpk == InitSpk /\ [][NextSpk]_vars

NonZero(seq) == Cardinality({i \in DOMAIN seq : seq[i] # 0})

(***************************************************************************)
(* C6: a playback read yields exactly FrameBytes bytes: the available      *)
(* bytes in enqueue order, accumulator first, then queued chunks, then     *)
(* zeros for the shortfall; what is not consumed stays in the accumulator. *)
(* The bytes played so far, then the accumulator, then the queue are the   *)
(* enqueued bytes in order, less those dropped or cleared.                 *)
(***************************************************************************)
C6_ReadFrame ==
    /\ r_info.reads > 0 =>
         /\ Len(r_out) = FrameBytes
         /\ NonZero(r_out) = Min(FrameBytes, r_info.avail)
         /\ \A i \in DOMAIN r_out : i <= NonZero(r_out) <=> r_out[i] # 0
         /\ r_info.avail < FrameBytes => r_info.qempty
         /\ NonZero(r_out) > 0 =>
              SubSeq(played, Len(played) - NonZero(r_out) + 1, Len(played))
                = SubSeq(r_out, 1, NonZero(r_out))
    /\ played \o spk_buf \o Flatten(spk_q) = Ascending((1..(next_byte - 1)) \ discarded)
    /\ r_pc = "idle" /\ r_info.reads > 0 /\ r_info.avail <= FrameBytes /\ c_pc = "idle"
         => spk_buf = <<>>

C6_Witness ==
    /\ r_info.reads > 0
    /\ r_pc = "idle"
    /\ r_info.avail = 1
    /\ r_out = <<3, 0>>
    /\ played = <<1, 2, 3>>

(***************************************************************************)
(* C7 as stated: once clear() has returned, the next playback read returns *)
(* only zero bytes whatever was enqueued before the clear, also when a     *)
(* playback read ran concurrently with the clear.  (after_clear: a clear   *)
(* has returned and no enqueue was made since that clear began.)           *)
(***************************************************************************)
C7_ZerosAfterClear ==
    r_verdict => r_out = Zeros(FrameBytes)

(***************************************************************************)
(* The wake/exit confirmation engine on its own: the recognition thread    *)
(* handling final transcripts, time passing, and the consumer thread       *)
(* inside set_mode.  set_mode writes the mode under self._mode_lock and    *)
(* then the two counters without it; _handle_transcript reads the mode     *)
(* under the lock and updates a counter with += (a read and a write).      *)
(* Each access to a shared field is one step.                              *)
(***************************************************************************)
MaxTranscripts == 4     \* final transcripts handled
MaxTime        == 4     \* last value of the clock, in seconds
MaxModeSteps   == 3     \* steps taken inside set_mode calls

Cooldown  == 2          \* cooldown_sec
Threshold == 2          \* require_consecutive_finals

\* the letters of the transcripts: n and z stand for the first words of the
\* wake and the exit phrase
Lower(c) ==
    CASE c = "N" -> "n"
      [] c = "Z" -> "z"
      [] c = "G" -> "g"
      [] c = "X" -> "x"
      [] OTHER   -> c

RECURSIVE NormalizeText(_)
\* _normalize_text: (text or "").replace(" ", "").lower()
NormalizeText(text) ==
    IF text = <<>> THEN <<>>
    ELSE IF Head(text) = " " THEN NormalizeText(Tail(text))
    ELSE <<Lower(Head(text))>> \o NormalizeText(Tail(text))

\* needle in hay, for Python strings
Contains(hay, needle) ==
    \E i \in 1..(Len(hay) - Len(needle) + 1) : SubSeq(hay, i, i + Len(needle) - 1) = needle

WakePhraseCfg == <<"n", "G">>
ExitPhraseCfg == <<"z", " ", "G">>

wake_phrase == NormalizeText(WakePhraseCfg)
exit_phrase == NormalizeText(ExitPhraseCfg)

Transcripts ==
    { <<" ">>,                      \* nothing left after normalization
      <<"x", " ", "N", " ", "g">>,  \* contains the wake phrase
      <<"n", "Z", " ", "g", "x">> } \* contains the exit phrase, and n and g apart

PhraseOf(m) == IF m = "idle" THEN wake_phrase ELSE exit_phrase

\* self.wake_phrase and self.wake_phrase in norm (and the same for exit)
Matches(norm, m) == PhraseOf(m) # <<>> /\ Contains(norm, PhraseOf(m))

\* mutant: the cooldown test is missing
InCooldown_Never(now, last) == FALSE

\* now - self._last_trigger_ts < self.cooldown_sec
InCooldown(now, last) == now - last < Cooldown

\* mutant: the threshold has to be exceeded
Reached_Strict(hits, final) == final /\ hits > Threshold

\* final and self._wake_hits >= self.require_consecutive_finals
Reached(hits, final) == final /\ hits >= Threshold

\* mutant: a transcript without the phrase leaves the counter alone
AfterMiss_Keeps(hits) == hits

\* the else branches: self._wake_hits = 0, self._exit_hits = 0
AfterMiss(hits) == 0

EventOf(m) == IF m = "idle" THEN "wake.detected" ELSE "exit.detected"

HitsOf(m) == IF m = "idle" THEN wake_hits ELSE exit_hits

SetHits(m, v) ==
    IF m = "idle" THEN wake_hits' = v /\ UNCHANGED exit_hits
    ELSE exit_hits' = v /\ UNCHANGED wake_hits

\* the entry of tlog for the transcript in h_loc (loc) that ends now
Entry(loc, cool, ev, wh1, eh1) ==
    [norm |-> loc.norm, mode |-> loc.mode, cool |-> cool, ev |-> ev,
     now |-> loc.now, last |-> loc.last,
     wh0 |-> loc.wh0, eh0 |-> loc.eh0, wh1 |-> wh1, eh1 |-> eh1,
     ms0 |-> loc.ms0, ms1 |-> mode_steps]

\* WakeDetectorVosk.__init__, and the state machine not started
InitWake ==
    /\ InitThreads
    /\ mode = "idle"
    /\ wake_hits = 0
    /\ exit_hits = 0
    /\ spk_q = <<>>
    /\ spk_buf = <<>>
    /\ listeners = <<>>
    /\ next_listener_id = 1
    /\ pc = "new"
    /\ state = "IDLE_LISTENING"
    /\ events = <<>>
    /\ stop_flag = FALSE
    /\ realtime = 0
    /\ mic_forward_sub = 0
    /\ call_stopping = FALSE
    /\ wake_sub = 0
    /\ websocket_ok = TRUE
    /\ clients = <<>>
    /\ posted = 0
    /\ trace = <<>>

\* time passes; the recognition thread reads the clock only when it starts on
\* a transcript, so time that passes inside the handler is taken to pass after it
Tick ==
    /\ clock < MaxTime
    /\ h_pc = "idle"
    /\ clock' = clock + 1
    /\ UNCHANGED <<smVars, vkThread, rtThread, hubVars, wakeData, spkData, micThread, spkThread,
                   last_trigger_ts, h_pc, h_loc, m_pc, mode_steps, emitted, tlog>>

\* set_mode: with self._mode_lock: self._mode = mode
SetModeBegin ==
    /\ m_pc = "idle"
    /\ mode_steps < MaxModeSteps
    /\ \E m \in {"idle", "in_call"} : mode' = m
    /\ m_pc' = "wake"
    /\ mode_steps' = mode_steps + 1
    /\ UNCHANGED <<smVars, vkThread, rtThread, hubVars, spkData, micThread, spkThread, wake_hits, exit_hits,
                   last_trigger_ts, clock, h_pc, h_loc, emitted, tlog>>

\* set_mode: self._wake_hits = 0
SetModeWakeHits ==
    /\ m_pc = "wake"
    /\ wake_hits' = 0
    /\ m_pc' = "exit"
    /\ mode_steps' = mode_steps + 1
    /\ UNCHANGED <<smVars, vkThread, rtThread, hubVars, spkData, micThread, spkThread, mode, exit_hits,
                   last_trigger_ts, clock, h_pc, h_loc, emitted, tlog>>

\* set_mode: self._exit_hits = 0, and the call returns
SetModeExitHits ==
    /\ m_pc = "exit"
    /\ exit_hits' = 0
    /\ m_pc' = "idle"
    /\ mode_steps' = mode_steps + 1
    /\ UNCHANGED <<smVars, vkThread, rtThread, hubVars, spkData, micThread, spkThread, mode, wake_hits,
                   last_trigger_ts, clock, h_pc, h_loc, emitted, tlog>>

\* _handle_transcript up to the branch on the mode: the empty transcript and
\* the transcript inside the cooldown return here
HandleBegin ==
    /\ h_pc = "idle"
    /\ Len(tlog) < MaxTranscripts
    /\ \E text \in Transcripts :
         LET norm == NormalizeText(text)
             loc  == [text |-> text, norm |-> norm, now |-> clock, mode |-> mode,
                      tmp |-> 0, last |-> last_trigger_ts,
                      wh0 |-> wake_hits, eh0 |-> exit_hits, ms0 |-> mode_steps]
         IN IF norm = <<>>
            THEN /\ tlog' = Append(tlog, Entry(loc, FALSE, "", wake_hits, exit_hits))
                 /\ UNCHANGED <<h_pc, h_loc>>
            ELSE IF InCooldown(clock, last_trigger_ts)
            THEN /\ tlog' = Append(tlog, Entry(loc, TRUE, "", wake_hits, exit_hits))
                 /\ UNCHANGED <<h_pc, h_loc>>
            ELSE /\ h_loc' = loc
                 /\ h_pc' = IF Matches(norm, mode) THEN "read" ELSE "miss"
                 /\ UNCHANGED tlog
    /\ UNCHANGED <<smVars, vkThread, rtThread, hubVars, wakeData, spkData, micThread, spkThread,
                   last_trigger_ts, clock, m_pc, mode_steps, emitted>>

\* self._wake_hits += 1: the read
HandleRead ==
    /\ h_pc = "read"
    /\ h_loc' = [h_loc EXCEPT !.tmp = HitsOf(h_loc.mode)]
    /\ h_pc' = "write"
    /\ UNCHANGED <<smVars, vkThread, rtThread, hubVars, wakeData, spkData, micThread, spkThread,
                   last_trigger_ts, clock, m_pc, mode_steps, emitted, tlog>>

\* self._wake_hits += 1: the write
HandleWrite ==
    /\ h_pc = "write"
    /\ SetHits(h_loc.mode, h_loc.tmp + 1)
    /\ h_pc' = "check"
    /\ UNCHANGED <<smVars, vkThread, rtThread, hubVars, spkData, micThread, spkThread, mode,
                   last_trigger_ts, clock, h_loc, m_pc, mode_steps, emitted, tlog>>

\* the test of the counter against the threshold; below it the handler returns
HandleCheck ==
    /\ h_pc = "check"
    /\ IF Reached(HitsOf(h_loc.mode), TRUE)
       THEN h_pc' = "fire" /\ UNCHANGED tlog
       ELSE /\ h_pc' = "idle"
            /\ tlog' = Append(tlog, Entry(h_loc, FALSE, "", wake_hits, exit_hits))
    /\ UNCHANGED <<smVars, vkThread, rtThread, hubVars, wakeData, spkData, micThread, spkThread,
                   last_trigger_ts, clock, h_loc, m_pc, mode_steps, emitted>>

\* the trigger: stamp the time, reset the counter, hand the event to event_sink
HandleFire ==
    /\ h_pc = "fire"
    /\ last_trigger_ts' = h_loc.now
    /\ SetHits(h_loc.mode, 0)
    /\ events' = Append(events, Ev(EventOf(h_loc.mode), 0, NextSeq(trace, events)))
    /\ emitted' = Append(emitted, [type |-> EventOf(h_loc.mode), ts |-> h_loc.now,
                                   idx |-> Len(tlog) + 1])
    /\ tlog' = Append(tlog, Entry(h_loc, FALSE, EventOf(h_loc.mode),
                                  IF h_loc.mode = "idle" THEN 0 ELSE wake_hits,
                                  IF h_loc.mode = "idle" THEN exit_hits ELSE 0))
    /\ h_pc' = "idle"
    /\ UNCHANGED <<pc, state, stop_flag, realtime, mic_forward_sub, call_stopping,
                   wake_sub, websocket_ok, clients, posted, trace,
                   rtThread, vkThread, hubVars, spkData, micThread, spkThread, mode,
                   clock, h_loc, m_pc, mode_steps>>

\* the transcript does not contain the phrase of the mode: the counter is reset
HandleMiss ==
    /\ h_pc = "miss"
    /\ SetHits(h_loc.mode, AfterMiss(HitsOf(h_loc.mode)))
    /\ tlog' = Append(tlog, Entry(h_loc, FALSE, "",
                                  IF h_loc.mode = "idle" THEN AfterMiss(wake_hits) ELSE wake_hits,
                                  IF h_loc.mode = "idle" THEN exit_hits ELSE AfterMiss(exit_hits)))
    /\ h_pc' = "idle"
    /\ UNCHANGED <<smVars, vkThread, rtThread, hubVars, spkData, micThread, spkThread, mode,
                   last_trigger_ts, clock, h_loc, m_pc, mode_steps, emitted>>

NextWake ==
    \/ Tick
    \/ SetModeBegin
    \/ SetModeWakeHits
    \/ SetModeExitHits
    \/ HandleBegin
    \/ HandleRead
    \/ HandleWrite
    \/ HandleCheck
    \/ HandleFire
    \/ HandleMiss

SpecWake == InitWake /\ [][NextWake]_vars

\* the counter of the mode of entry e, before and after its transcript
Hits0(e) == IF e.mode = "idle" THEN e.wh0 ELSE e.eh0
Hits1(e) == IF e.mode = "idle" THEN e.wh1 ELSE e.eh1

\* no step of set_mode was taken from the start of the transcript of entry a
\* to the end of the transcript of entry b
Undisturbed(a, b) == a.ms0 = b.ms1

EmittedBy(i) == {j \in DOMAIN emitted : emitted[j].idx = i}

(***************************************************************************)
(* C8: with threshold 2, the counter at zero and no cooldown active, two   *)
(* final transcripts in a row that contain the phrase of the mode (wake    *)
(* phrase in idle, exit phrase in in_call), with no set_mode in between,   *)
(* produce exactly one event, wake.detected or exit.detected, on the       *)
(* second transcript.                                                      *)
(***************************************************************************)
TwoInARow(i) ==
    /\ i + 1 \in DOMAIN tlog
    /\ tlog[i].mode = tlog[i + 1].mode
    /\ Matches(tlog[i].norm, tlog[i].mode)
    /\ Matches(tlog[i + 1].norm, tlog[i].mode)
    /\ tlog[i].now - tlog[i].last >= Cooldown
    /\ tlog[i + 1].now - tlog[i + 1].last >= Cooldown
    /\ Hits0(tlog[i]) = 0
    /\ Undisturbed(tlog[i], tlog[i + 1])

C8_SecondMatchFires ==
    \A i \in DOMAIN tlog :
        TwoInARow(i) =>
            /\ tlog[i].ev = ""
            /\ EmittedBy(i) = {}
            /\ tlog[i + 1].ev = EventOf(tlog[i].mode)
            /\ Cardinality(EmittedBy(i + 1)) = 1
            /\ \A j \in EmittedBy(i + 1) : emitted[j].type = EventOf(tlog[i].mode)
            /\ Hits1(tlog[i + 1]) = 0

C8_Witness ==
    /\ \E i \in DOMAIN tlog : TwoInARow(i) /\ tlog[i].mode = "idle"
    /\ \E i \in DOMAIN tlog : TwoInARow(i) /\ tlog[i].mode = "in_call"

(***************************************************************************)
(* C9 as stated: any final transcript without the phrase of the mode,      *)
(* handled between two transcripts with the phrase, resets the counter, so *)
(* that the second of them fires no event; also when the text in between   *)
(* is empty after normalization.                                           *)
(***************************************************************************)
MissBetween(i) ==
    /\ i + 2 \in DOMAIN tlog
    /\ tlog[i].mode = tlog[i + 2].mode
    /\ tlog[i].mode = tlog[i + 1].mode
    /\ Matches(tlog[i].norm, tlog[i].mode)
    /\ ~Matches(tlog[i + 1].norm, tlog[i].mode)
    /\ Matches(tlog[i + 2].norm, tlog[i].mode)
    /\ Undisturbed(tlog[i], tlog[i + 2])

C10_Cooldown ==
    /\ \A i \in DOMAIN tlog :
         tlog[i].now - tlog[i].last < Cooldown =>
             /\ tlog[i].ev = ""
             /\ EmittedBy(i) = {}
             /\ tlog[i].wh1 = tlog[i].wh0
             /\ tlog[i].eh1 = tlog[i].eh0
    /\ \A i, j \in DOMAIN emitted :
         i < j => emitted[j].ts - emitted[i].ts >= Cooldown
    /\ \A j \in DOMAIN emitted : emitted[j].ts <= last_trigger_ts

C10_Witness ==
    /\ Len(tlog) = 4
    /\ Len(emitted) = 1
    /\ tlog[2].ev = "wake.detected"
    /\ \A i \in {3, 4} :
         /\ tlog[i].mode = "in_call"
         /\ Matches(tlog[i].norm, "in_call")
         /\ tlog[i].now - tlog[i].last < Cooldown

(***************************************************************************)
(* C17 as stated: at the step with which set_mode returns, the wake        *)
(* counter and the exit counter are both zero, whatever the recognition    *)
(* thread does in _handle_transcript at the same time.                     *)
(***************************************************************************)
SetModeReturns == m_pc = "exit" /\ m_pc' = "idle"

C17_CountersZeroAfterSetMode ==
    [][SetModeReturns => (wake_hits' = 0 /\ exit_hits' = 0)]_vars

(***************************************************************************)
(* One RealtimeClient on its own: the receive thread (_run_ws and the      *)
(* callbacks run_forever invokes on it), the send thread (_run_sender),    *)
(* the capture thread calling send_audio, and the consumer thread inside   *)
(* close().  Every access to a shared field, every queue operation and     *)
(* every ws.send is one step; ws.send runs under self._send_lock.  The     *)
(* connection is "none" until run_forever has connected, then "open",      *)
(* then "closed"; nothing can be transmitted on a connection that is not   *)
(* open (ws.send raises, _send_json logs it).                              *)
(*                                                                         *)
(* join(timeout=2.0): a thread that was told to stop is taken to end       *)
(* within the timeout.  The send thread is told so by self._stop.  The     *)
(* receive thread is told so only by self._ws_app.close(); when close()    *)
(* did not make that call the join gives up after the timeout.             *)
(***************************************************************************)
MaxRtChunks == 2    \* send_audio calls
MaxMsgs     == 3    \* messages received from the server
RtQueueMax  == 1    \* capacity of RealtimeClient._audio_q, 1024 in the source

ServerMsgs == {"session.created", "input_audio_buffer.speech_started",
               "input_audio_buffer.speech_stopped", "response.audio.delta",
               "response.done", "session.updated"}

\* mutant: a full queue gives up its oldest chunk
PutNowait_DropsOldest(q, chunk, cap) ==
    IF Len(q) < cap THEN Append(q, chunk) ELSE Append(Tail(q), chunk)

\* try: q.put_nowait(chunk) / except queue.Full: log
PutNowait(q, chunk, cap) == IF Len(q) < cap THEN Append(q, chunk) ELSE q

PutRecord(q, chunk, cap) ==
    [made |-> TRUE, full |-> Len(q) >= cap, chunk |-> chunk, before |-> q,
     after |-> PutNowait(q, chunk, cap)]

\* mutant: the send loop does not test self._connected
SenderSkips_Never(connected) == FALSE

\* _run_sender: if not self._connected.is_set(): continue
SenderSkips(connected) == ~connected

\* mutant: the two requests are sent the other way round
StoppedReply_Swapped(i) ==
    IF i = 1 THEN "response.create" ELSE "input_audio_buffer.commit"

\* _handle_message on speech_stopped: the i-th message it sends
StoppedReply(i) ==
    IF i = 1 THEN "input_audio_buffer.commit" ELSE "response.create"

\* _emit
Emit(t) == rt_events' = Append(rt_events, [type |-> t, after_close |-> k_pc = "returned"])

\* _send_json on the receive thread: nothing is sent without self._ws_app
\* or on a connection that is not open
Transmit(t) ==
    IF rt_ws_app /\ conn = "open"
    THEN wire' = Append(wire, [type |-> t, by |-> "ws", chunk |-> 0, neg |-> created,
                               deq_neg |-> created, open |-> conn = "open",
                               after_close |-> k_pc = "returned"])
    ELSE UNCHANGED wire

\* the record of the handler that ends with this step
Handled(type, wire0, ev0) ==
    LET mine == SelectSeq(SubSeq(wire', wire0 + 1, Len(wire')), LAMBDA m : m.by = "ws")
    IN [type |-> type, sent |-> [i \in DOMAIN mine |-> mine[i].type],
        emitted |-> Len(rt_events') - ev0,
        clean |-> k_pc = "idle" /\ conn = "open"]

\* RealtimeClient.__init__, and the state machine not started
InitRt ==
    /\ InitThreads
    /\ spk_q = <<>>
    /\ spk_buf = <<>>
    /\ listeners = <<>>
    /\ next_listener_id = 1
    /\ pc = "new"
    /\ state = "IDLE_LISTENING"
    /\ events = <<>>
    /\ stop_flag = FALSE
    /\ realtime = 0
    /\ mic_forward_sub = 0
    /\ call_stopping = FALSE
    /\ wake_sub = 0
    /\ websocket_ok = TRUE
    /\ clients = <<>>
    /\ posted = 0
    /\ trace = <<>>
    /\ mode = "idle"
    /\ wake_hits = 0
    /\ exit_hits = 0

\* start(): both threads are started
RtStart ==
    /\ w_pc = "unstarted"
    /\ rt_stop' = FALSE
    /\ w_pc' = "init"
    /\ s_pc' = "loop"
    /\ UNCHANGED <<smVars, vkThread, hubVars, wakeData, micThread, spkThread, wakeThread, spkData,
                   rt_connected, rt_ws_app, rt_q, conn, w_msg, s_chunk, k_pc, k_ws, rt_calls,
                   rt_recv, wire, rt_events, rt_dropped, created, last_put, last_handled>>

\* _run_ws: self._ws_app = websocket.WebSocketApp(...)
WsCreate ==
    /\ w_pc = "init"
    /\ rt_ws_app' = TRUE
    /\ w_pc' = "run"
    /\ UNCHANGED <<smVars, vkThread, hubVars, wakeData, micThread, spkThread, wakeThread, spkData,
                   rt_stop, rt_connected, rt_q, conn, w_msg, s_pc, s_chunk, k_pc, k_ws,
                   rt_calls, rt_recv, wire, rt_events, rt_dropped, created, last_put,
                   last_handled>>

\* run_forever: the connection is established (on_open only logs)
WsOpen ==
    /\ w_pc = "run"
    /\ conn = "none"
    /\ conn' = "open"
    /\ UNCHANGED <<smVars, vkThread, hubVars, wakeData, micThread, spkThread, wakeThread, spkData,
                   rt_stop, rt_connected, rt_ws_app, rt_q, w_pc, w_msg, s_pc, s_chunk, k_pc,
                   k_ws, rt_calls, rt_recv, wire, rt_events, rt_dropped, created, last_put,
                   last_handled>>

\* on_message with session.created: self._connected.set()
WsRecvCreated ==
    /\ w_pc = "run"
    /\ conn = "open"
    /\ rt_recv < MaxMsgs
    /\ rt_recv' = rt_recv + 1
    /\ rt_connected' = TRUE
    /\ created' = TRUE
    /\ w_msg' = [type |-> "session.created", wire0 |-> Len(wire), ev0 |-> Len(rt_events)]
    /\ w_pc' = "update"
    /\ UNCHANGED <<smVars, vkThread, hubVars, wakeData, micThread, spkThread, wakeThread, spkData,
                   rt_stop, rt_ws_app, rt_q, conn, s_pc, s_chunk, k_pc, k_ws, rt_calls, wire,
                   rt_events, rt_dropped, last_put, last_handled>>

\* session.created: self._send_json(build_session_update(...))
WsSendUpdate ==
    /\ w_pc = "update"
    /\ Transmit("session.update")
    /\ w_pc' = "ready"
    /\ UNCHANGED <<smVars, vkThread, hubVars, wakeData, micThread, spkThread, wakeThread, spkData,
                   rt_stop, rt_connected, rt_ws_app, rt_q, conn, w_msg, s_pc, s_chunk, k_pc,
                   k_ws, rt_calls, rt_recv, rt_events, rt_dropped, created, last_put,
                   last_handled>>

\* session.created: self._emit("realtime.ready"), and the handler returns
WsEmitReady ==
    /\ w_pc = "ready"
    /\ Emit("realtime.ready")
    /\ UNCHANGED wire
    /\ last_handled' = Handled(w_msg.type, w_msg.wire0, w_msg.ev0)
    /\ w_pc' = "run"
    /\ UNCHANGED <<smVars, vkThread, hubVars, wakeData, micThread, spkThread, wakeThread, spkData,
                   rt_stop, rt_connected, rt_ws_app, rt_q, conn, w_msg, s_pc, s_chunk, k_pc,
                   k_ws, rt_calls, rt_recv, rt_dropped, created, last_put>>

\* on_message with input_audio_buffer.speech_started: speaker_player.clear()
WsRecvStarted ==
    /\ w_pc = "run"
    /\ conn = "open"
    /\ rt_recv < MaxMsgs
    /\ rt_recv' = rt_recv + 1
    /\ spk_buf' = <<>>
    /\ spk_q' = <<>>
    /\ UNCHANGED <<wire, rt_events>>
    /\ last_handled' = Handled("input_audio_buffer.speech_started", Len(wire), Len(rt_events))
    /\ UNCHANGED <<smVars, vkThread, hubVars, wakeData, micThread, spkThread, wakeThread, rt_stop,
                   rt_connected, rt_ws_app, rt_q, conn, w_pc, w_msg, s_pc, s_chunk, k_pc, k_ws,
                   rt_calls, rt_dropped, created, last_put>>

\* on_message with input_audio_buffer.speech_stopped: the first _send_json
WsRecvStopped ==
    /\ w_pc = "run"
    /\ conn = "open"
    /\ rt_recv < MaxMsgs
    /\ rt_recv' = rt_recv + 1
    /\ w_msg' = [type |-> "input_audio_buffer.speech_stopped", wire0 |-> Len(wire),
                 ev0 |-> Len(rt_events)]
    /\ Transmit(StoppedReply(1))
    /\ w_pc' = "create"
    /\ UNCHANGED <<smVars, vkThread, hubVars, wakeData, micThread, spkThread, wakeThread, spkData,
                   rt_stop, rt_connected, rt_ws_app, rt_q, conn, s_pc, s_chunk, k_pc, k_ws,
                   rt_calls, rt_events, rt_dropped, created, last_put, last_handled>>

\* speech_stopped: the second _send_json, and the handler returns
WsSendCreate ==
    /\ w_pc = "create"
    /\ Transmit(StoppedReply(2))
    /\ UNCHANGED rt_events
    /\ last_handled' = Handled(w_msg.type, w_msg.wire0, w_msg.ev0)
    /\ w_pc' = "run"
    /\ UNCHANGED <<smVars, vkThread, hubVars, wakeData, micThread, spkThread, wakeThread, spkData,
                   rt_stop, rt_connected, rt_ws_app, rt_q, conn, w_msg, s_pc, s_chunk, k_pc,
                   k_ws, rt_calls, rt_recv, rt_dropped, created, last_put>>

\* on_message with an audio delta: speaker_player.enqueue, then the
\* realtime.response_event of every response.* message
WsRecvDelta ==
    /\ w_pc = "run"
    /\ conn = "open"
    /\ rt_recv < MaxMsgs
    /\ rt_recv' = rt_recv + 1
    /\ spk_q' = PutNowait(spk_q, <<rt_recv + 1>>, SpkQueueMax)
    /\ last_put' = [last_put EXCEPT !.spk = PutRecord(spk_q, <<rt_recv + 1>>, SpkQueueMax)]
    /\ Emit("realtime.response_event")
    /\ UNCHANGED <<wire, spk_buf>>
    /\ last_handled' = Handled("response.audio.delta", Len(wire), Len(rt_events))
    /\ UNCHANGED <<smVars, vkThread, hubVars, wakeData, micThread, spkThread, wakeThread, rt_stop,
                   rt_connected, rt_ws_app, rt_q, conn, w_pc, w_msg, s_pc, s_chunk, k_pc, k_ws,
                   rt_calls, rt_dropped, created>>

\* on_message with a message that carries no audio
WsRecvOther ==
    /\ w_pc = "run"
    /\ conn = "open"
    /\ rt_recv < MaxMsgs
    /\ rt_recv' = rt_recv + 1
    /\ \E t \in {"response.done", "session.updated"} :
         /\ IF t = "response.done" THEN Emit("realtime.response_event")
            ELSE UNCHANGED rt_events
         /\ UNCHANGED wire
         /\ last_handled' = Handled(t, Len(wire), Len(rt_events))
    /\ UNCHANGED <<smVars, vkThread, hubVars, wakeData, micThread, spkThread, wakeThread, spkData,
                   rt_stop, rt_connected, rt_ws_app, rt_q, conn, w_pc, w_msg, s_pc, s_chunk,
                   k_pc, k_ws, rt_calls, rt_dropped, created, last_put>>

\* on_error: the connection fails
WsError ==
    /\ w_pc = "run"
    /\ conn \in {"none", "open"}
    /\ Emit("realtime.error")
    /\ conn' = "closed"
    /\ UNCHANGED <<smVars, vkThread, hubVars, wakeData, micThread, spkThread, wakeThread, spkData,
                   rt_stop, rt_connected, rt_ws_app, rt_q, w_pc, w_msg, s_pc, s_chunk, k_pc,
                   k_ws, rt_calls, rt_recv, wire, rt_dropped, created, last_put, last_handled>>

\* the connection is closed, by the server or by ws.close(): on_close, and
\* run_forever returns
WsClosed ==
    /\ w_pc = "run"
    /\ conn \in {"open", "closed"}
    /\ conn' = "closed"
    /\ rt_connected' = FALSE
    /\ Emit("realtime.closed")
    /\ w_pc' = "done"
    /\ UNCHANGED <<smVars, vkThread, hubVars, wakeData, micThread, spkThread, wakeThread, spkData,
                   rt_stop, rt_ws_app, rt_q, w_msg, s_pc, s_chunk, k_pc, k_ws, rt_calls,
                   rt_recv, wire, rt_dropped, created, last_put, last_handled>>

\* send_audio, called by the capture thread
RtSendAudio ==
    /\ w_pc # "unstarted"
    /\ rt_calls < MaxRtChunks
    /\ rt_calls' = rt_calls + 1
    /\ IF rt_stop
       THEN UNCHANGED <<rt_q, last_put>>
       ELSE /\ rt_q' = PutNowait(rt_q, rt_calls + 1, RtQueueMax)
            /\ last_put' = [last_put EXCEPT !.rt = PutRecord(rt_q, rt_calls + 1, RtQueueMax)]
    /\ UNCHANGED <<smVars, vkThread, hubVars, wakeData, micThread, spkThread, wakeThread, spkData,
                   rt_stop, rt_connected, rt_ws_app, conn, w_pc, w_msg, s_pc, s_chunk, k_pc,
                   k_ws, rt_recv, wire, rt_events, rt_dropped, created, last_handled>>

\* _run_sender: while not self._stop.is_set()
SendLoop ==
    /\ s_pc = "loop"
    /\ s_pc' = IF rt_stop THEN "done" ELSE "get"
    /\ UNCHANGED <<smVars, vkThread, hubVars, wakeData, micThread, spkThread, wakeThread, spkData,
                   rt_stop, rt_connected, rt_ws_app, rt_q, conn, w_pc, w_msg, s_chunk, k_pc,
                   k_ws, rt_calls, rt_recv, wire, rt_events, rt_dropped, created, last_put,
                   last_handled>>

\* _run_sender: self._audio_q.get(timeout=0.2)
SendGet ==
    /\ s_pc = "get"
    /\ IF rt_q = <<>>
       THEN s_pc' = "loop" /\ UNCHANGED <<rt_q, s_chunk>>
       ELSE /\ s_chunk' = [id |-> Head(rt_q), deq_neg |-> created]
            /\ rt_q' = Tail(rt_q)
            /\ s_pc' = "test"
    /\ UNCHANGED <<smVars, vkThread, hubVars, wakeData, micThread, spkThread, wakeThread, spkData,
                   rt_stop, rt_connected, rt_ws_app, conn, w_pc, w_msg, k_pc, k_ws, rt_calls,
                   rt_recv, wire, rt_events, rt_dropped, created, last_put, last_handled>>

\* _run_sender: if not self._connected.is_set(): continue
SendTest ==
    /\ s_pc = "test"
    /\ IF SenderSkips(rt_connected)
       THEN s_pc' = "loop" /\ rt_dropped' = rt_dropped \cup {s_chunk.id}
       ELSE s_pc' = "read" /\ UNCHANGED rt_dropped
    /\ UNCHANGED <<smVars, vkThread, hubVars, wakeData, micThread, spkThread, wakeThread, spkData,
                   rt_stop, rt_connected, rt_ws_app, rt_q, conn, w_pc, w_msg, s_chunk, k_pc,
                   k_ws, rt_calls, rt_recv, wire, rt_events, created, last_put, last_handled>>

\* _send_json: ws = self._ws_app; if ws is None: return
SendRead ==
    /\ s_pc = "read"
    /\ s_pc' = IF rt_ws_app THEN "xmit" ELSE "loop"
    /\ UNCHANGED <<smVars, vkThread, hubVars, wakeData, micThread, spkThread, wakeThread, spkData,
                   rt_stop, rt_connected, rt_ws_app, rt_q, conn, w_pc, w_msg, s_chunk, k_pc,
                   k_ws, rt_calls, rt_recv, wire, rt_events, rt_dropped, created, last_put,
                   last_handled>>

\* mutant: a closed connection still carries what is sent on it
WsSendWorks_Always(c) == TRUE

\* ws.send(text) raises on a connection that is not open
WsSendWorks(c) == c = "open"

\* _send_json: with self._send_lock: ws.send(text)
SendXmit ==
    /\ s_pc = "xmit"
    /\ IF WsSendWorks(conn)
       THEN wire' = Append(wire, [type |-> "input_audio_buffer.append", by |-> "sender",
                                  chunk |-> s_chunk.id, neg |-> created,
                                  deq_neg |-> s_chunk.deq_neg, open |-> conn = "open",
                                  after_close |-> k_pc = "returned"])
       ELSE UNCHANGED wire
    /\ s_pc' = "loop"
    /\ UNCHANGED <<smVars, vkThread, hubVars, wakeData, micThread, spkThread, wakeThread, spkData,
                   rt_stop, rt_connected, rt_ws_app, rt_q, conn, w_pc, w_msg, s_chunk, k_pc,
                   k_ws, rt_calls, rt_recv, rt_events, rt_dropped, created, last_put,
                   last_handled>>

\* close(): self._stop.set()
CloseStop ==
    /\ k_pc = "idle"
    /\ w_pc # "unstarted"
    /\ rt_stop' = TRUE
    /\ k_pc' = "clear"
    /\ UNCHANGED <<smVars, vkThread, hubVars, wakeData, micThread, spkThread, wakeThread, spkData,
                   rt_connected, rt_ws_app, rt_q, conn, w_pc, w_msg, s_pc, s_chunk, k_ws,
                   rt_calls, rt_recv, wire, rt_events, rt_dropped, created, last_put,
                   last_handled>>

\* close(): self._connected.clear()
CloseClear ==
    /\ k_pc = "clear"
    /\ rt_connected' = FALSE
    /\ k_pc' = "ws"
    /\ UNCHANGED <<smVars, vkThread, hubVars, wakeData, micThread, spkThread, wakeThread, spkData,
                   rt_stop, rt_ws_app, rt_q, conn, w_pc, w_msg, s_pc, s_chunk, k_ws, rt_calls,
                   rt_recv, wire, rt_events, rt_dropped, created, last_put, last_handled>>

\* close(): if self._ws_app is not None: self._ws_app.close()
CloseWs ==
    /\ k_pc = "ws"
    /\ IF rt_ws_app
       THEN conn' = "closed" /\ k_ws' = TRUE
       ELSE UNCHANGED <<conn, k_ws>>
    /\ k_pc' = "join_sender"
    /\ UNCHANGED <<smVars, vkThread, hubVars, wakeData, micThread, spkThread, wakeThread, spkData,
                   rt_stop, rt_connected, rt_ws_app, rt_q, w_pc, w_msg, s_pc, s_chunk,
                   rt_calls, rt_recv, wire, rt_events, rt_dropped, created, last_put,
                   last_handled>>

\* close(): self._sender_thread.join(timeout=2.0)
CloseJoinSender ==
    /\ k_pc = "join_sender"
    /\ s_pc = "done"
    /\ k_pc' = "join_ws"
    /\ UNCHANGED <<smVars, vkThread, hubVars, wakeData, micThread, spkThread, wakeThread, spkData,
                   rt_stop, rt_connected, rt_ws_app, rt_q, conn, w_pc, w_msg, s_pc, s_chunk,
                   k_ws, rt_calls, rt_recv, wire, rt_events, rt_dropped, created, last_put,
                   last_handled>>

\* close(): self._ws_thread.join(timeout=2.0)
CloseJoinWs ==
    /\ k_pc = "join_ws"
    /\ w_pc = "done" \/ ~k_ws
    /\ k_pc' = "fin"
    /\ UNCHANGED <<smVars, vkThread, hubVars, wakeData, micThread, spkThread, wakeThread, spkData,
                   rt_stop, rt_connected, rt_ws_app, rt_q, conn, w_pc, w_msg, s_pc, s_chunk,
                   k_ws, rt_calls, rt_recv, wire, rt_events, rt_dropped, created, last_put,
                   last_handled>>

\* close(): the three fields are set to None, and close() returns
CloseFin ==
    /\ k_pc = "fin"
    /\ rt_ws_app' = FALSE
    /\ k_pc' = "returned"
    /\ UNCHANGED <<smVars, vkThread, hubVars, wakeData, micThread, spkThread, wakeThread, spkData,
                   rt_stop, rt_connected, rt_q, conn, w_pc, w_msg, s_pc, s_chunk, k_ws,
                   rt_calls, rt_recv, wire, rt_events, rt_dropped, created, last_put,
                   last_handled>>

NextRt ==
    \/ RtStart
    \/ WsCreate
    \/ WsOpen
    \/ WsRecvCreated
    \/ WsSendUpdate
    \/ WsEmitReady
    \/ WsRecvStarted
    \/ WsRecvStopped
    \/ WsSendCreate
    \/ WsRecvDelta
    \/ WsRecvOther
    \/ WsError
    \/ WsClosed
    \/ RtSendAudio
    \/ SendLoop
    \/ SendGet
    \/ SendTest
    \/ SendRead
    \/ SendXmit
    \/ CloseStop
    \/ CloseClear
    \/ CloseWs
    \/ CloseJoinSender
    \/ CloseJoinWs
    \/ CloseFin

SpecRt == InitRt /\ [][NextRt]_vars

IsAppend(m) == m.type = "input_audio_buffer.append"

(***************************************************************************)
(* C12 as stated: the send loop transmits no input_audio_buffer.append     *)
(* before session.created has been received on the connection and none on  *)
(* a connection that is closed, and a chunk that was dequeued while the    *)
(* session was not negotiated is not transmitted.                          *)
(***************************************************************************)
C12_NoAppendUnlessNegotiated ==
    \A i \in DOMAIN wire :
        IsAppend(wire[i]) =>
            /\ wire[i].neg
            /\ wire[i].open
            /\ wire[i].deq_neg

(***************************************************************************)
(* C12 amended: the send loop transmits no input_audio_buffer.append       *)
(* before session.created has been received on the connection and none on  *)
(* a connection that is closed.  The loop tests the connected flag after   *)
(* it has dequeued a chunk: a chunk for which the test finds the flag      *)
(* clear is discarded, never transmitted and never queued again, while a   *)
(* chunk dequeued just before session.created is handled is transmitted    *)
(* once the flag is set.  No chunk is transmitted twice, and chunks are     *)
(* transmitted in the order of the send_audio calls.                       *)
(***************************************************************************)
Appends == SelectSeq(wire, IsAppend)

InQueue(c) == \E i \in DOMAIN rt_q : rt_q[i] = c

Held(c) == s_pc \in {"test", "read", "xmit"} /\ s_chunk.id = c

C12_AppendOnlyWhenNegotiated ==
    /\ \A i \in DOMAIN wire :
         IsAppend(wire[i]) =>
            /\ wire[i].neg
            /\ wire[i].open
            /\ wire[i].chunk \notin rt_dropped
    /\ \A c \in rt_dropped : ~InQueue(c) /\ ~Held(c)
    /\ \A i, j \in DOMAIN Appends : i < j => Appends[i].chunk < Appends[j].chunk
    /\ (s_pc \in {"read", "xmit"} /\ k_pc = "idle") => created

C12_Witness ==
    /\ rt_dropped = {1}
    /\ Len(Appends) = 1
    /\ Appends[1].chunk = 2
    /\ ~Appends[1].deq_neg

(***************************************************************************)
(* C13 as stated: once close() has returned, the connection of the client  *)
(* is closed, the receive loop and the send loop have ended, and no event  *)
(* is posted any more, wherever after start() the close was called.        *)
(***************************************************************************)
C13_CloseStopsEverything ==
    k_pc = "returned" =>
        /\ conn = "closed"
        /\ w_pc = "done"
        /\ s_pc = "done"
        /\ \A i \in DOMAIN rt_events : ~rt_events[i].after_close

(***************************************************************************)
(* C19: a speech_stopped message handled on an open connection while       *)
(* close() has not been called makes the client transmit one               *)
(* input_audio_buffer.commit and then one response.create, in that order   *)
(* and nothing else, and hand no event to event_sink.                      *)
(***************************************************************************)
\* what the receive thread has transmitted since it began on its message
SentInHandler ==
    LET mine == SelectSeq(SubSeq(wire, w_msg.wire0 + 1, Len(wire)), LAMBDA m : m.by = "ws")
    IN [i \in DOMAIN mine |-> mine[i].type]

C19_SpeechStoppedReply ==
    /\ (last_handled.type = "input_audio_buffer.speech_stopped" /\ last_handled.clean) =>
          /\ last_handled.sent = <<"input_audio_buffer.commit", "response.create">>
          /\ last_handled.emitted = 0
    /\ (w_pc = "create" /\ k_pc = "idle" /\ conn = "open") =>
          /\ SentInHandler = <<"input_audio_buffer.commit">>
          /\ Len(rt_events) = w_msg.ev0

C19_Witness ==
    /\ last_handled.type = "input_audio_buffer.speech_stopped"
    /\ last_handled.clean
    /\ w_pc = "run"
    /\ Len(wire) = 4
    /\ wire[1].type = "session.update"
    /\ wire[2].type = "input_audio_buffer.commit"
    /\ IsAppend(wire[3])
    /\ wire[4].type = "response.create"

(***************************************************************************)
(* C20: the producer-side enqueues drop the newest chunk on overflow: when *)
(* the playback queue (SpeakerPlayer.enqueue) or the outbound audio queue  *)
(* (RealtimeClient.send_audio) is full, the call returns with the queue,   *)
(* its chunks and their order, unchanged; otherwise the chunk is appended  *)
(* as the last one.  Neither queue ever holds more than its capacity.      *)
(***************************************************************************)
DropsNewest(put) ==
    put.made => IF put.full THEN put.after = put.before
                ELSE put.after = Append(put.before, put.chunk)

IsState(e)   == e.k = "state"
IsStartOk(e) == e.k = "start" /\ e.s = "ok"
IsNew(e)     == e.k = "new"
IsClose(e)   == e.k = "close"

Names(seq) == [i \in DOMAIN seq |-> seq[i].s]

StateSeq      == Names(SelectSeq(trace, IsState))

\* the session state when trace[i] was logged
StateBefore(i) ==
    LET js == {j \in 1..(i - 1) : trace[j].k = "state"}
    IN IF js = {} THEN "IDLE_LISTENING"
       ELSE trace[CHOOSE j \in js : \A k \in js : k <= j].s

\* the part of the trace that belongs to session sid: from the construction of
\* its client to the construction of the next one
SegFirst(sid) == CHOOSE i \in DOMAIN trace : trace[i] = E("new", "", sid)
SegLast(sid)  == IF sid < Len(clients) THEN SegFirst(sid + 1) - 1 ELSE Len(trace)
Seg(sid)      == SubSeq(trace, SegFirst(sid), SegLast(sid))

\* the token of the mic forward subscription of session sid, 0 if it has none
SessionToken(sid) ==
    LET is == {i \in DOMAIN Seg(sid) : Seg(sid)[i].k = "sub"}
    IN IF is = {} THEN 0 ELSE Seg(sid)[CHOOSE i \in is : TRUE].n

\* what one run of the cleanup of _stop_call does for session sid, state
\* changes left out
CleanupOf(sid) ==
    <<E("mode", "idle", 0)>>
    \o (IF SessionToken(sid) # 0 THEN <<E("unsub", "", SessionToken(sid))>> ELSE <<>>)
    \o <<E("close", "", sid), E("clear", "", 0)>>

NotState(e) == e.k # "state"

\* the effects logged after trace[i], state changes left out
EffectsAfter(sq, i) == SelectSeq(SubSeq(sq, i + 1, Len(sq)), NotState)

SessionOver(sid) ==
    \/ sid < Len(clients)
    \/ pc = "done"
    \/ state = "IDLE_LISTENING"

(***************************************************************************)
(* C1: whenever wake.detected is consumed in IDLE_LISTENING and the next   *)
(* two events consumed are realtime.ready and exit.detected, the session   *)
(* state goes IDLE_LISTENING, CONNECTING, IN_CALL, STOPPING,               *)
(* IDLE_LISTENING, and during that run exactly one RealtimeClient is       *)
(* constructed and started and exactly one, the same, is closed.           *)
(***************************************************************************)
\* the index of the next event consumed after trace[i], 0 if there is none
NextConsume(i) ==
    LET js == {j \in (i + 1)..Len(trace) : trace[j].k = "consume"}
    IN IF js = {} THEN 0 ELSE CHOOSE j \in js : \A k \in js : j <= k

\* the last effect of the handler that consumed trace[i]
HandlerEnd(i) ==
    LET js == {j \in (i + 1)..Len(trace) :
                 trace[j].k = "consume" \/ trace[j] = E("state", "SHUTDOWN", 0)}
    IN IF js = {} THEN Len(trace) ELSE (CHOOSE j \in js : \A k \in js : j <= k) - 1

WakeReadyExitAt(i) ==
    /\ trace[i].k = "consume"
    /\ trace[i].s = "wake.detected"
    /\ StateBefore(i) = "IDLE_LISTENING"
    /\ NextConsume(i) # 0
    /\ trace[NextConsume(i)].s = "realtime.ready"
    /\ NextConsume(NextConsume(i)) # 0
    /\ trace[NextConsume(NextConsume(i))].s = "exit.detected"

C1_WakeReadyExit ==
    \A i \in DOMAIN trace :
        WakeReadyExitAt(i) =>
            LET run == SubSeq(trace, i, HandlerEnd(NextConsume(NextConsume(i))))
                sid == run[CHOOSE j \in DOMAIN run : run[j].k = "new"].n
            IN /\ Names(SelectSeq(run, IsState))
                    = <<"CONNECTING", "IN_CALL", "STOPPING", "IDLE_LISTENING">>
               /\ \A j \in DOMAIN run : run[j].k = "state" => run[j].n = 1
               /\ Count(run, IsNew) = 1
               /\ Count(run, IsStartOk) = 1
               /\ Count(run, IsClose) = 1
               /\ \E j \in DOMAIN run : run[j] = E("start", "ok", sid)
               /\ \E j \in DOMAIN run : run[j] = E("close", "", sid)
               /\ clients[sid].started /\ clients[sid].closes = 1

C1_Witness ==
    /\ pc = "loop"
    /\ state = "IDLE_LISTENING"
    /\ \E i \in DOMAIN trace : WakeReadyExitAt(i) /\ i > 3

(***************************************************************************)
(* C2: for every session the state machine opens, the cleanup of           *)
(* _stop_call (mode idle, mic forward subscription removed, close, clear)  *)
(* runs exactly once: never twice, and once as soon as the session is      *)
(* over, whichever event or shutdown ended it.                             *)
(***************************************************************************)
C2_CleanupExactlyOnce ==
    \A sid \in DOMAIN clients :
        LET seg == Seg(sid)
            cs  == {i \in DOMAIN seg : seg[i].k = "cleanup"}
        IN /\ Cardinality(cs) <= 1
           /\ clients[sid].closes = Cardinality(cs)
           /\ Count(trace, LAMBDA e : e = E("close", "", sid)) = Cardinality(cs)
           /\ SessionToken(sid) # 0 =>
                Count(trace, LAMBDA e : e = E("unsub", "", SessionToken(sid))) = Cardinality(cs)
           /\ \A i \in cs : IsPrefix(CleanupOf(sid), EffectsAfter(seg, i))
           /\ SessionOver(sid) => Cardinality(cs) = 1
           /\ Cardinality(cs) = 0 => realtime = sid

C2_Witness ==
    /\ Len(clients) = 2
    /\ pc = "done"
    /\ \E i \in DOMAIN trace : trace[i] = E("cleanup", "shutdown", 0)
    /\ \E i \in DOMAIN trace : trace[i] = E("cleanup", "realtime.closed", 0)

(***************************************************************************)
(* C3: a second invocation of _stop_call right after a first one (no call  *)
(* started in between) does nothing: no cleanup, no close, no state        *)
(* change, no mode change, and no unsubscribe.  The second invocation is   *)
(* the one made by shutdown(), which itself goes on to remove the wake     *)
(* subscription and to stop the speaker.                                   *)
(***************************************************************************)
IsLifecycle(e) == e.k \in {"stop_call", "new"}

SecondInRow(j) ==
    /\ trace[j].k = "stop_call"
    /\ \E i \in 1..(j - 1) :
         /\ trace[i].k = "stop_call"
         /\ \A k \in (i + 1)..(j - 1) : ~IsLifecycle(trace[k])

C3_SecondTeardownNoOp ==
    \A j \in DOMAIN trace :
        SecondInRow(j) =>
            /\ SubSeq(trace, j + 1, Len(trace)) = <<E("unsub", "", wake_sub), E("clear", "", 0)>>
            /\ \A sid \in DOMAIN clients : clients[sid].closes = 1
            /\ state = "SHUTDOWN"

C3_Witness == \E j \in DOMAIN trace : SecondInRow(j)

(***************************************************************************)
(* C4: when realtime.error is consumed in CONNECTING, the handler ends in  *)
(* IDLE_LISTENING, and from the start of the call to that return the mode  *)
(* of the wake/exit engine is never set to in_call.                        *)
(***************************************************************************)
ErrorInConnecting(i) ==
    /\ trace[i].k = "consume"
    /\ trace[i].s = "realtime.error"
    /\ StateBefore(i) = "CONNECTING"

\* the index at which the call that is open at trace[i] started
CallStart(i) ==
    LET js == {j \in 1..i : trace[j].k = "new"}
    IN CHOOSE j \in js : \A k \in js : k <= j

C4_ErrorWhileConnecting ==
    \A i \in DOMAIN trace :
        ErrorInConnecting(i) =>
            \E j \in (i + 1)..Len(trace) :
                /\ trace[j] = E("state", "IDLE_LISTENING", 1)
                /\ \A k \in (i + 1)..j : trace[k].k # "consume"
                /\ \A k \in CallStart(i)..j : trace[k] # E("mode", "in_call", 0)
                /\ \E k \in (i + 1)..j : trace[k] = E("mode", "idle", 0)

C4_Witness == \E i \in DOMAIN trace : ErrorInConnecting(i)

(***************************************************************************)
(* C14: shutdown() performs the call cleanup in whatever session state it  *)
(* is called: when a client handle or a mic forward subscription exists,   *)
(* neither guard of _stop_call skips the cleanup, and when shutdown() has  *)
(* returned no RealtimeClient handle remains, every client constructed has *)
(* been closed, the mic forward and the wake subscription are gone from    *)
(* the hub, and the playback queue and accumulator are empty.              *)
(***************************************************************************)
ShutdownAt(j) == trace[j] = E("stop_call", "shutdown", 0)

\* the client held in _realtime when trace[j] is logged, 0 if none
ClientHeldAt(j) ==
    LET ns == {i \in 1..(j - 1) : trace[i].k = "new"}
        n  == IF ns = {} THEN 0 ELSE trace[CHOOSE i \in ns : \A k \in ns : k <= i].n
    IN IF n # 0 /\ \A i \in 1..(j - 1) : trace[i] # E("close", "", n) THEN n ELSE 0

\* the token held in _mic_forward_sub when trace[j] is logged, 0 if none
TokenHeldAt(j) ==
    LET ss == {i \in 1..(j - 1) : trace[i].k = "sub"}
        t  == IF ss = {} THEN 0 ELSE trace[CHOOSE i \in ss : \A k \in ss : k <= i].n
    IN IF t # 0 /\ \A i \in 1..(j - 1) : trace[i] # E("unsub", "", t) THEN t ELSE 0

Unclosed == {sid \in DOMAIN clients : clients[sid].started /\ clients[sid].closes = 0}

C15_HandleOnlyDuringCall ==
    /\ (pc = "loop" /\ state = "IDLE_LISTENING") => (realtime = 0 /\ mic_forward_sub = 0)
    /\ realtime # 0 => state \in {"CONNECTING", "IN_CALL"}
    /\ mic_forward_sub # 0 =>
         /\ realtime # 0
         /\ mic_forward_sub \in DOMAIN listeners
         /\ listeners[mic_forward_sub] = "send_audio"
    /\ Cardinality(Unclosed) <= 1
    /\ Unclosed \subseteq {realtime}

C15_Witness ==
    /\ pc = "loop"
    /\ state = "IDLE_LISTENING"
    /\ Len(clients) = 2
    /\ clients[1].started
    /\ clients[2].started
    /\ clients[2].closes = 1

(***************************************************************************)
(* The events consumed so far, and the order of the queue: the events are  *)
(* numbered in the order of the put calls.                                 *)
(***************************************************************************)
Consumed == SelectSeq(trace, IsConsume)

Fifo ==
    /\ \A i \in DOMAIN Consumed : Consumed[i].seq = i
    /\ \A i \in DOMAIN events : events[i].seq = Len(Consumed) + i

\* the entries of the trace that change the value of the session state
IsChange(j) == trace[j].k = "state" /\ trace[j].s # StateBefore(j)

\* the index of the event consumed last before trace[j], 0 if there is none
LastConsume(j) ==
    LET cs == {i \in 1..(j - 1) : IsConsume(trace[i])}
    IN IF cs = {} THEN 0 ELSE CHOOSE i \in cs : \A k \in cs : k <= i

\* trace[j] was logged by the handler of the event consumed last
InHandler(j) == LastConsume(j) # 0 /\ j <= HandlerEnd(LastConsume(j))

(***************************************************************************)
(* C16 as stated: events are consumed in the order they were posted, and   *)
(* every change of the session state happens in response to a consumed     *)
(* event: in the handler of the event, or, for SHUTDOWN, when the loop     *)
(* ends after app.stop was consumed.                                       *)
(***************************************************************************)
C16_OnlyOnConsumedEvent ==
    /\ Fifo
    /\ \A j \in DOMAIN trace :
         IsChange(j) =>
            IF trace[j].s = "SHUTDOWN"
            THEN LastConsume(j) # 0 /\ trace[LastConsume(j)].s = "app.stop"
            ELSE InHandler(j)

(***************************************************************************)
(* C16 amended: events are consumed in the order they were posted.  Every  *)
(* change of the session state between IDLE_LISTENING, CONNECTING, IN_CALL *)
(* and STOPPING happens in the handler of a consumed event, as the         *)
(* transition table has it.  SHUTDOWN is entered by shutdown(), once, when *)
(* run() leaves its loop: after app.stop was consumed, or on a             *)
(* KeyboardInterrupt with no event consumed for it.                        *)
(***************************************************************************)
Teardown == {"exit.detected", "realtime.closed", "realtime.error"}

TableRow(from, ev, to) ==
    \/ from = "IDLE_LISTENING" /\ ev = "wake.detected" /\ to = "CONNECTING"
    \/ from = "CONNECTING" /\ ev = "realtime.ready" /\ to = "IN_CALL"
    \/ from = "IN_CALL" /\ ev = "exit.detected" /\ to = "STOPPING"
    \/ from \in {"CONNECTING", "IN_CALL"} /\ ev \in {"realtime.closed", "realtime.error"}
         /\ to = "STOPPING"
    \/ from = "STOPPING" /\ ev \in Teardown /\ to = "IDLE_LISTENING"

C16_CallStatesOnConsumedEvent ==
    /\ Fifo
    /\ \A j \in DOMAIN trace :
         IsChange(j) =>
            IF trace[j].s = "SHUTDOWN"
            THEN /\ pc = "done"
                 /\ trace[j + 1] = E("stop_call", "shutdown", 0)
                 /\ \A k \in (j + 1)..Len(trace) : ~IsConsume(trace[k]) /\ ~IsChange(k)
            ELSE /\ InHandler(j)
                 /\ TableRow(StateBefore(j), trace[LastConsume(j)].s, trace[j].s)

C16_Witness ==
    /\ pc = "done"
    /\ state = "SHUTDOWN"
    /\ Len(Consumed) = 2
    /\ \A i \in DOMAIN Consumed : Consumed[i].s # "app.stop"
    /\ Len(events) = 2
    /\ \E j \in DOMAIN trace : trace[j] = E("state", "SHUTDOWN", 0) /\ StateBefore(j) = "IN_CALL"

(***************************************************************************)
(* One WakeDetectorVosk on its own: start() and stop() on the thread of    *)
(* the state machine, _run on the recognition thread, push_audio on the    *)
(* capture thread.  The mode stays "idle".                                 *)
(***************************************************************************)
MaxPushes  == 3     \* push_audio calls
WdQueueMax == 2     \* maxsize of _audio_q (512 in the source)

\* what start() and _run can find: vosk not installed, the model directory
\* missing, Model() or KaldiRecognizer() raising, or all well
Engines == {"missing", "no_model", "broken", "ok"}

\* what the recognizer makes of a chunk: AcceptWaveform says whether the
\* result is final, and a final result carries a transcript
Heard == [final : BOOLEAN, text : Transcripts]

\* start(): the three early returns
StartReturnsEarly(thread, engine) == thread \/ engine \in {"missing", "no_model"}

\* push_audio: if not self._enabled: return
PushIgnored(enabled) == ~enabled

\* mutant: the newest queued chunk is taken out
GetNowait_Newest(q) == IF q = <<>> THEN q ELSE SubSeq(q, 1, Len(q) - 1)

\* the queue after get_nowait, which raises queue.Empty on an empty queue
GetNowait(q) == IF q = <<>> THEN q ELSE Tail(q)

InitVosk ==
    /\ InitMicThread /\ InitSpkThread /\ InitWakeThread /\ InitRtThread
    /\ InitDetector
    /\ vosk \in Engines
    /\ mode = "idle"
    /\ wake_hits = 0
    /\ exit_hits = 0
    /\ spk_q = <<>>
    /\ spk_buf = <<>>
    /\ listeners = <<>>
    /\ next_listener_id = 1
    /\ pc = "new"
    /\ state = "IDLE_LISTENING"
    /\ events = <<>>
    /\ stop_flag = FALSE
    /\ realtime = 0
    /\ mic_forward_sub = 0
    /\ call_stopping = FALSE
    /\ wake_sub = 0
    /\ websocket_ok = TRUE
    /\ clients = <<>>
    /\ posted = 0
    /\ trace = <<>>

\* start() returns early: nothing changes
StartSkip ==
    /\ st_pc = "idle"
    /\ StartReturnsEarly(wd_thread, vosk)
    /\ st_pc' = "returned"
    /\ UNCHANGED <<smVars, hubVars, wakeData, spkData, micThread, spkThread, wakeThread, rtThread,
                   wd_enabled, wd_thread, wd_stop, wd_q, vosk, x_pc, v_pc, p_pc, p_loc, wd_pushes, wd_last_push>>

\* start(): self._stop.clear(), the thread is created and started
StartSpawn ==
    /\ st_pc = "idle"
    /\ ~StartReturnsEarly(wd_thread, vosk)
    /\ wd_stop' = FALSE
    /\ wd_thread' = TRUE
    /\ v_pc' = "init"
    /\ st_pc' = "spawned"
    /\ UNCHANGED <<smVars, hubVars, wakeData, spkData, micThread, spkThread, wakeThread, rtThread,
                   wd_enabled, wd_q, vosk, x_pc, p_pc, p_loc, wd_pushes, wd_last_push>>

\* start(): self._enabled = True, and the call returns
StartEnable ==
    /\ st_pc = "spawned"
    /\ wd_enabled' = TRUE
    /\ st_pc' = "returned"
    /\ UNCHANGED <<smVars, hubVars, wakeData, spkData, micThread, spkThread, wakeThread, rtThread,
                   wd_thread, wd_stop, wd_q, vosk, x_pc, v_pc, p_pc, p_loc, wd_pushes, wd_last_push>>

\* _run: Model() and KaldiRecognizer() work, the loop is entered
VoskInitOk ==
    /\ v_pc = "init"
    /\ vosk = "ok"
    /\ v_pc' = "loop"
    /\ UNCHANGED <<smVars, hubVars, wakeData, spkData, micThread, spkThread, wakeThread, rtThread,
                   wd_enabled, wd_thread, wd_stop, wd_q, vosk, st_pc, x_pc, p_pc, p_loc, wd_pushes, wd_last_push>>

\* _run: Model() or KaldiRecognizer() raises: self._enabled = False; return
VoskInitFails ==
    /\ v_pc = "init"
    /\ vosk = "broken"
    /\ wd_enabled' = FALSE
    /\ v_pc' = "done"
    /\ UNCHANGED <<smVars, hubVars, wakeData, spkData, micThread, spkThread, wakeThread, rtThread,
                   wd_thread, wd_stop, wd_q, vosk, st_pc, x_pc, p_pc, p_loc, wd_pushes, wd_last_push>>

\* _run: while not self._stop.is_set() finds the flag set
VoskExit ==
    /\ v_pc = "loop"
    /\ wd_stop
    /\ v_pc' = "done"
    /\ UNCHANGED <<smVars, hubVars, wakeData, spkData, micThread, spkThread, wakeThread, rtThread,
                   wd_enabled, wd_thread, wd_stop, wd_q, vosk, st_pc, x_pc, p_pc, p_loc, wd_pushes, wd_last_push>>

\* _run: one turn of the loop with a chunk in the queue: the chunk is taken,
\* recognized, and a final transcript goes through _handle_transcript
VoskHear ==
    /\ v_pc = "loop"
    /\ ~wd_stop
    /\ wd_q # <<>>
    /\ wd_q' = Tail(wd_q)
    /\ \E h \in Heard :
         LET norm == NormalizeText(h.text) IN
         IF ~h.final \/ norm = <<>> \/ InCooldown(clock, last_trigger_ts)
         THEN UNCHANGED <<wake_hits, exit_hits, last_trigger_ts, events, emitted>>
         ELSE IF ~Matches(norm, mode)
         THEN /\ SetHits(mode, AfterMiss(HitsOf(mode)))
              /\ UNCHANGED <<last_trigger_ts, events, emitted>>
         ELSE IF ~Reached(HitsOf(mode) + 1, TRUE)
         THEN /\ SetHits(mode, HitsOf(mode) + 1)
              /\ UNCHANGED <<last_trigger_ts, events, emitted>>
         ELSE /\ SetHits(mode, 0)
              /\ last_trigger_ts' = clock
              /\ events' = Append(events, Ev(EventOf(mode), 0, NextSeq(trace, events)))
              /\ emitted' = Append(emitted, [type |-> EventOf(mode), ts |-> clock,
                                             idx |-> Len(emitted) + 1])
    /\ UNCHANGED <<pc, state, stop_flag, realtime, mic_forward_sub, call_stopping,
                   wake_sub, websocket_ok, clients, posted, trace,
                   hubVars, spkData, micThread, spkThread, rtThread, mode,
                   clock, h_pc, h_loc, m_pc, mode_steps, tlog,
                   wd_enabled, wd_thread, wd_stop, vosk, st_pc, x_pc, v_pc, p_pc, p_loc,
                   wd_pushes, wd_last_push>>

\* nothing will change self._enabled any more: start() has returned and the
\* recognition thread is past its initialization, and stop() was not called
Settled == st_pc = "returned" /\ v_pc # "init" /\ x_pc = "idle"

\* push_audio: the test of self._enabled; a disabled engine returns here
PushBegin ==
    /\ p_pc = "idle"
    /\ wd_pushes < MaxPushes
    /\ wd_pushes' = wd_pushes + 1
    /\ LET loc == [made |-> TRUE, enabled |-> wd_enabled, settled |-> Settled,
                   chunk |-> wd_pushes + 1, before |-> wd_q, after |-> wd_q,
                   raised |-> FALSE, full |-> FALSE, atdrop |-> <<>>, dropped |-> 0]
       IN IF PushIgnored(wd_enabled)
          THEN wd_last_push' = loc /\ UNCHANGED <<p_pc, p_loc>>
          ELSE p_pc' = "put" /\ p_loc' = loc /\ UNCHANGED wd_last_push
    /\ UNCHANGED <<smVars, hubVars, wakeData, spkData, micThread, spkThread, wakeThread, rtThread,
                   wd_enabled, wd_thread, wd_stop, wd_q, vosk, st_pc, x_pc, v_pc>>

\* push_audio: self._audio_q.put_nowait(pcm_bytes), with room in the queue
PushPut ==
    /\ p_pc = "put"
    /\ Len(wd_q) < WdQueueMax
    /\ wd_q' = Append(wd_q, p_loc.chunk)
    /\ wd_last_push' = [p_loc EXCEPT !.after = wd_q']
    /\ p_pc' = "idle"
    /\ UNCHANGED <<smVars, hubVars, wakeData, spkData, micThread, spkThread, wakeThread, rtThread,
                   wd_enabled, wd_thread, wd_stop, vosk, st_pc, x_pc, v_pc, p_loc, wd_pushes>>

\* push_audio: put_nowait raises queue.Full
PushFull ==
    /\ p_pc = "put"
    /\ Len(wd_q) >= WdQueueMax
    /\ p_loc' = [p_loc EXCEPT !.full = TRUE]
    /\ p_pc' = "drop"
    /\ UNCHANGED <<smVars, hubVars, wakeData, spkData, micThread, spkThread, wakeThread, rtThread,
                   wd_enabled, wd_thread, wd_stop, wd_q, vosk, st_pc, x_pc, v_pc, wd_pushes, wd_last_push>>

\* push_audio: _ = self._audio_q.get_nowait(), queue.Empty is passed over
PushDrop ==
    /\ p_pc = "drop"
    /\ wd_q' = GetNowait(wd_q)
    /\ p_loc' = [p_loc EXCEPT !.atdrop = wd_q,
                              !.dropped = IF wd_q = <<>> THEN 0
                                          ELSE CHOOSE c \in Range(wd_q) :
                                                   c \notin Range(GetNowait(wd_q))]
    /\ p_pc' = "reput"
    /\ UNCHANGED <<smVars, hubVars, wakeData, spkData, micThread, spkThread, wakeThread, rtThread,
                   wd_enabled, wd_thread, wd_stop, vosk, st_pc, x_pc, v_pc, wd_pushes, wd_last_push>>

\* push_audio: the second put_nowait, which nothing catches
PushReput ==
    /\ p_pc = "reput"
    /\ IF Len(wd_q) < WdQueueMax
       THEN /\ wd_q' = Append(wd_q, p_loc.chunk)
            /\ wd_last_push' = [p_loc EXCEPT !.after = wd_q']
       ELSE /\ wd_last_push' = [p_loc EXCEPT !.after = wd_q, !.raised = TRUE]
            /\ UNCHANGED wd_q
    /\ p_pc' = "idle"
    /\ UNCHANGED <<smVars, hubVars, wakeData, spkData, micThread, spkThread, wakeThread, rtThread,
                   wd_enabled, wd_thread, wd_stop, vosk, st_pc, x_pc, v_pc, p_loc, wd_pushes>>

\* stop(): self._stop.set(); the state machine calls it after start()
StopSet ==
    /\ x_pc = "idle"
    /\ st_pc = "returned"
    /\ wd_stop' = TRUE
    /\ x_pc' = "join"
    /\ UNCHANGED <<smVars, hubVars, wakeData, spkData, micThread, spkThread, wakeThread, rtThread,
                   wd_enabled, wd_thread, wd_q, vosk, st_pc, v_pc, p_pc, p_loc, wd_pushes, wd_last_push>>

\* stop(): self._thread.join(timeout=2.0) when there is a thread: the thread
\* has ended, or it is still loading the model when the two seconds are over
StopJoin ==
    /\ x_pc = "join"
    /\ ~wd_thread \/ v_pc \in {"done", "init"}
    /\ x_pc' = "clear"
    /\ UNCHANGED <<smVars, hubVars, wakeData, spkData, micThread, spkThread, wakeThread, rtThread,
                   wd_enabled, wd_thread, wd_stop, wd_q, vosk, st_pc, v_pc, p_pc, p_loc, wd_pushes, wd_last_push>>

\* stop(): self._thread = None
StopClear ==
    /\ x_pc = "clear"
    /\ wd_thread' = FALSE
    /\ x_pc' = "disable"
    /\ UNCHANGED <<smVars, hubVars, wakeData, spkData, micThread, spkThread, wakeThread, rtThread,
                   wd_enabled, wd_stop, wd_q, vosk, st_pc, v_pc, p_pc, p_loc, wd_pushes, wd_last_push>>

\* stop(): self._enabled = False, and the call returns
StopDisable ==
    /\ x_pc = "disable"
    /\ wd_enabled' = FALSE
    /\ x_pc' = "returned"
    /\ UNCHANGED <<smVars, hubVars, wakeData, spkData, micThread, spkThread, wakeThread, rtThread,
                   wd_thread, wd_stop, wd_q, vosk, st_pc, v_pc, p_pc, p_loc, wd_pushes, wd_last_push>>

NextVosk ==
    \/ StartSkip
    \/ StartSpawn
    \/ StartEnable
    \/ VoskInitOk
    \/ VoskInitFails
    \/ VoskExit
    \/ VoskHear
    \/ PushBegin
    \/ PushPut
    \/ PushFull
    \/ PushDrop
    \/ PushReput
    \/ StopSet
    \/ StopJoin
    \/ StopClear
    \/ StopDisable

SpecVosk == InitVosk /\ [][NextVosk]_vars

(***************************************************************************)
(* C18: when the recognition engine or its model is unavailable or fails   *)
(* to initialize, no wake.detected or exit.detected is ever emitted, and   *)
(* once start() has returned and the recognition thread is past its        *)
(* initialization the engine is disabled and a push_audio call leaves the  *)
(* queue as it found it, in every interleaving of start() with _run.       *)
(***************************************************************************)
C18_UnavailableStaysDisabled ==
    vosk # "ok" =>
        /\ emitted = <<>>
        /\ Settled => ~wd_enabled
        /\ (wd_last_push.made /\ wd_last_push.settled) =>
               wd_last_push.after = wd_last_push.before

(***************************************************************************)
(* C21: push_audio never blocks and never raises.  A call that finds the   *)
(* engine disabled leaves the queue as it is.  A call that finds the queue *)
(* full takes out the oldest chunk queued at that moment and returns with  *)
(* its own chunk last in the queue and the queue in capture order, also    *)
(* when the recognition loop dequeues between its steps.                   *)
(***************************************************************************)
PushStep == PushPut \/ PushFull \/ PushDrop \/ PushReput

CaptureOrder(q) == \A i, j \in DOMAIN q : i < j => q[i] < q[j]

C21_PushAudio ==
    /\ p_pc # "idle" => ENABLED PushStep
    /\ CaptureOrder(wd_q)
    /\ wd_last_push.made =>
         /\ ~wd_last_push.raised
         /\ ~wd_last_push.enabled => wd_last_push.after = wd_last_push.before
         /\ wd_last_push.full =>
              /\ wd_last_push.atdrop # <<>> =>
                     wd_last_push.dropped = Head(wd_last_push.atdrop)
              /\ wd_last_push.after # <<>>
              /\ wd_last_push.after[Len(wd_last_push.after)] = wd_last_push.chunk
              /\ CaptureOrder(wd_last_push.after)
              /\ Range(wd_last_push.after) \subseteq
                     (Range(wd_last_push.atdrop) \ {wd_last_push.dropped})
                         \cup {wd_last_push.chunk}

\* a call found the queue full, the recognition loop took a chunk before the
\* call took out the oldest one left, and the call returned
C21_Witness ==
    /\ wd_last_push.made
    /\ wd_last_push.full
    /\ wd_last_push.dropped # 0
    /\ Len(wd_last_push.atdrop) < WdQueueMax
    /\ Len(wd_last_push.after) >= 1

(***************************************************************************)
(* C22: whenever a realtime.closed or realtime.error event emitted by a    *)
(* RealtimeClient causes the cleanup of _stop_call in CONNECTING or        *)
(* IN_CALL, the client that emitted it is the one held in _realtime, which *)
(* the cleanup closes: an event of an earlier session never tears down a   *)
(* later one.                                                              *)
(***************************************************************************)
\* trace[i] is a realtime.closed or realtime.error of a client, consumed in
\* CONNECTING or IN_CALL
ClientEndsCallAt(i) ==
    /\ IsConsume(trace[i])
    /\ trace[i].s \in {"realtime.closed", "realtime.error"}
    /\ trace[i].n # 0
    /\ StateBefore(i) \in {"CONNECTING", "IN_CALL"}

\* the clients closed by the handler of the event consumed at trace[i]
ClosedBy(i) == {trace[j].n : j \in {k \in i..HandlerEnd(i) : IsClose(trace[k])}}

C22_StaleEventHarmless ==
    \A i \in DOMAIN trace : ClientEndsCallAt(i) => ClosedBy(i) \subseteq {trace[i].n}

(***************************************************************************)
(* C23: whenever the state machine is between two event handlings, the     *)
(* mode of the wake/exit engine is in_call if and only if the session      *)
(* state is IN_CALL.                                                       *)
(***************************************************************************)
C23_ModeFollowsState ==
    pc = "loop" => (mode = "in_call" <=> state = "IN_CALL")

\* the second session is in its call: the mode went in_call, idle, in_call
C23_Witness ==
    /\ pc = "loop"
    /\ state = "IN_CALL"
    /\ mode = "in_call"
    /\ Len(clients) = 2
    /\ clients[1].closes = 1

(***************************************************************************)
(* C24: on the connection of a client, session.update is transmitted       *)
(* before any input_audio_buffer.append, in every interleaving of the      *)
(* receive loop handling session.created with the send loop.               *)
(***************************************************************************)
C24_UpdateBeforeAppend ==
    \A i \in DOMAIN wire :
        IsAppend(wire[i]) => \E j \in 1..(i - 1) : wire[j].type = "session.update"

(***************************************************************************)
(* C25: when RealtimeClient.start raises inside _start_call, the state     *)
(* machine posts realtime.error to itself, and once that event has been    *)
(* consumed the state machine is in IDLE_LISTENING, holds no               *)
(* RealtimeClient, and has no mic forward subscription registered.         *)
(***************************************************************************)
IsStartRaise(e) == e.k = "start" /\ e.s = "raise"

\* realtime.error posted by _start_call: no client emitted it
IsOwnError(e) == e.type = "realtime.error" /\ e.sid = 0

IsOwnErrorConsumed(e) == IsConsume(e) /\ e.s = "realtime.error" /\ e.n = 0

\* the handler of the event consumed at trace[i] has just returned
JustHandled(i) == pc = "loop" /\ NextConsume(i) = 0

C25_StartFailureEndsInIdle ==
    /\ Count(trace, IsStartRaise) = Count(trace, IsOwnErrorConsumed) + Count(events, IsOwnError)
    /\ \A i \in DOMAIN trace :
         (IsOwnErrorConsumed(trace[i]) /\ JustHandled(i)) =>
            /\ state = "IDLE_LISTENING"
            /\ realtime = 0
            /\ mic_forward_sub = 0
            /\ \A t \in DOMAIN listeners : listeners[t] # "send_audio"
            /\ \A sid \in DOMAIN clients : clients[sid].closes = 1

\* the start of the second session failed too, and its error was consumed
C25_Witness ==
    /\ ~websocket_ok
    /\ Len(clients) = 2
    /\ \E i \in DOMAIN trace : IsOwnErrorConsumed(trace[i]) /\ JustHandled(i) /\ i > 1

(***************************************************************************)
(* C26: an event consumed in a state for which the transition table has no *)
(* row (wake.detected outside IDLE_LISTENING, realtime.ready outside       *)
(* CONNECTING, exit.detected outside IN_CALL, realtime.closed and          *)
(* realtime.error outside CONNECTING and IN_CALL, an event of an unknown   *)
(* type) leaves the session state, the RealtimeClient handle, the mic      *)
(* forward subscription and the mode of the wake/exit engine unchanged.    *)
(***************************************************************************)
HasRow(t, st) ==
    \/ t = "wake.detected" /\ st = "IDLE_LISTENING"
    \/ t = "realtime.ready" /\ st = "CONNECTING"
    \/ t = "exit.detected" /\ st = "IN_CALL"
    \/ t \in {"realtime.closed", "realtime.error"} /\ st \in {"CONNECTING", "IN_CALL"}
    \/ t = "app.stop"

\* the step is one iteration of the loop of run() on an event without a row
ConsumesWithoutRow ==
    /\ pc = "loop" /\ pc' = "loop"
    /\ events # <<>>
    /\ events' = Tail(events)
    /\ Len(trace') > Len(trace)
    /\ ~HasRow(Head(events).type, state)

C26_NoRowNoEffect ==
    [][ConsumesWithoutRow =>
         /\ UNCHANGED <<state, realtime, mic_forward_sub, mode>>
         /\ UNCHANGED <<listeners, clients, call_stopping, stop_flag>>
         /\ trace' = Append(trace, [k |-> "consume", s |-> Head(events).type,
                                    n |-> Head(events).sid, seq |-> Head(events).seq])]_vars

\* events without a row were consumed during a call: one of an unknown type
\* and a wake.detected
C26_Witness ==
    /\ state = "IN_CALL"
    /\ realtime # 0
    /\ mic_forward_sub # 0
    /\ mode = "in_call"
    /\ Len(trace) >= 2
    /\ IsConsume(trace[Len(trace)]) /\ IsConsume(trace[Len(trace) - 1])
    /\ {trace[Len(trace)].s, trace[Len(trace) - 1].s}
           = {"realtime.response_event", "wake.detected"}

====
